---- MODULE Spec2Model ----
(***************************************************************************)
(* Model of advanced-telegram-bot: the generic document storage with its   *)
(* backends (LocalJSONStorage, MongoDBStorage), the state / role / user    *)
(* meta accessors built on it, and the Router's dispatch of inbound        *)
(* events to registered routes.                                            *)
(*                                                                         *)
(* A document is a function from a finite set of column names to values.   *)
(* A collection is a record [file, docs]: file = "missing" means that the  *)
(* collection was never written (no <collection>.json for the local        *)
(* backend, no such collection in the database for MongoDB), file =        *)
(* "corrupt" that the local file holds no JSON text, docs is the sequence  *)
(* of documents in insertion order.                                        *)
(***************************************************************************)
EXTENDS Integers, Sequences, FiniteSets, TLC

VARIABLES
    backend,          \* which Storage implementation the process was built with
    config,           \* StateManager's constructor arguments: with_params and free_status
    store,            \* the collection under work (the users collection for the bot)
    last,             \* the last Storage call: its name, arguments, the collection before it and its outcome
    roles,            \* RoleAuth.__roles: the role catalog, role name -> password
    command_routes,   \* Router.__command_routes, in registration order
    message_routes,   \* Router.__message_routes, in registration order
    document_routes,  \* Router.__document_routes, in registration order
    served,           \* the last call handled by the bot: what it resolved, invoked and raised
    probe,            \* arguments and results of the access checks applied on their own
    twin,             \* the same calls made on a LocalJSONStorage and on a MongoDBStorage side by side
    threads           \* the calls in progress: each thread's position in its call and its local variables

vars == <<backend, config, message_routes, document_routes, store, last, roles, command_routes, served, probe, twin, threads>>

-----------------------------------------------------------------------------
(* Bounds of the model *)

MaxDocs == 2

MaxRoutes == 3

-----------------------------------------------------------------------------
(* Helpers on sequences and documents *)

Min(a, b) == IF a < b THEN a ELSE b

EmptyDoc == [key \in {} |-> 0]

Range(s) == {s[i] : i \in 1..Len(s)}

\* data[:count]
Take(s, count) == SubSeq(s, 1, Min(count, Len(s)))

\* the sequence without its i-th element
RemoveAt(s, i) == [j \in 1..(Len(s) - 1) |-> IF j < i THEN s[j] ELSE s[j + 1]]

\* list.remove(x): drops the first element equal to x
ListRemove(s, x) ==
    IF \E i \in 1..Len(s) : s[i] = x
    THEN RemoveAt(s, CHOOSE i \in 1..Len(s) : s[i] = x /\ \A j \in 1..(i - 1) : s[j] # x)
    ELSE s

\* (mutant) compares the column names only
Match_KeysOnly(doc, x) == \A key \in DOMAIN doc : key \in DOMAIN x

\* doc.items() <= x.items()
Match(doc, x) == \A key \in DOMAIN doc : key \in DOMAIN x /\ x[key] = doc[key]

\* for key in doc.keys(): d[key] = doc[key]      (also MongoDB's $set)
Merge(d, doc) ==
    [key \in (DOMAIN d) \cup (DOMAIN doc) |-> IF key \in DOMAIN doc THEN doc[key] ELSE d[key]]

\* outcome of a storage call: the error raised ("none" when it returns), the
\* collection afterwards and the returned list
Outcome(err, st, ret) == [err |-> err, store |-> st, ret |-> ret]

Written(docs) == [file |-> "ok", docs |-> docs]

-----------------------------------------------------------------------------
(* DataFiltering *)

dict_list_slice(dicts, columns) ==
    IF columns # {}
    THEN IF \E i \in 1..Len(dicts) : ~(columns \subseteq DOMAIN dicts[i])
         THEN [err |-> "KeyError", ret |-> <<>>]
         ELSE [err |-> "none",
               ret |-> [i \in 1..Len(dicts) |-> [c \in columns |-> dicts[i][c]]]]
    ELSE [err |-> "none", ret |-> dicts]

-----------------------------------------------------------------------------
(* LocalJSONStorage: one JSON file per collection, read and rewritten whole *)

\* (mutant) a file that cannot be read counts as an empty collection
LocalJSONStorage_get_data_EmptyWhenUnreadable(st, columns, doc, count) ==
    IF st.file # "ok"
    THEN Outcome("none", st, <<>>)
    ELSE LET filtered == IF DOMAIN doc # {}
                         THEN SelectSeq(st.docs, LAMBDA x : Match(doc, x))
                         ELSE st.docs
             sliced == IF columns # {}
                       THEN dict_list_slice(filtered, columns)
                       ELSE [err |-> "none", ret |-> filtered]
         IN  IF sliced.err # "none"
             THEN Outcome("StorageException", st, <<>>)
             ELSE Outcome("none", st,
                          IF count # 0 THEN Take(sliced.ret, count) ELSE sliced.ret)

\* open() fails when the file is missing and json.load when it holds no JSON
\* text; both end in StorageException
LocalJSONStorage_get_data(st, columns, doc, count) ==
    IF st.file # "ok"
    THEN Outcome("StorageException", st, <<>>)
    ELSE LET filtered == IF DOMAIN doc # {}
                         THEN SelectSeq(st.docs, LAMBDA x : Match(doc, x))
                         ELSE st.docs
             sliced == IF columns # {}
                       THEN dict_list_slice(filtered, columns)
                       ELSE [err |-> "none", ret |-> filtered]
         IN  IF sliced.err # "none"
             THEN Outcome("StorageException", st, <<>>)
             ELSE Outcome("none", st,
                          IF count # 0 THEN Take(sliced.ret, count) ELSE sliced.ret)

LocalJSONStorage_get_data_by_column(st, by, value, columns, count) ==
    LocalJSONStorage_get_data(st, columns, [key \in {by} |-> value], count)

\* (mutant) nothing is read back from the file
LocalJSONStorage_read_or_empty_NothingRead(st) == <<>>

\* try: data = self.get_data(collection=collection)
\* except: data = []
LocalJSONStorage_read_or_empty(st) ==
    LET got == LocalJSONStorage_get_data(st, {}, EmptyDoc, 0)
    IN  IF got.err # "none" THEN <<>> ELSE got.ret

\* (mutant) the documents read are dropped: the file is rewritten with doc alone
LocalJSONStorage_insert_one_doc_Overwrite(st, doc) ==
    Outcome("none", Written(<<doc>>), <<>>)

LocalJSONStorage_insert_one_doc(st, doc) ==
    Outcome("none", Written(Append(LocalJSONStorage_read_or_empty(st), doc)), <<>>)

\* data += docs
LocalJSONStorage_insert_many_docs(st, docs) ==
    LET got == LocalJSONStorage_get_data(st, {}, EmptyDoc, 0)
        data == IF got.err # "none" THEN <<>> ELSE got.ret
    IN  Outcome("none", Written(data \o docs), <<>>)

LocalJSONStorage_remove_one_doc_by_dict(st, doc) ==
    LET got == LocalJSONStorage_get_data(st, {}, EmptyDoc, 0)
    IN  IF got.err # "none"
        THEN Outcome("StorageException", st, <<>>)
        ELSE LET data == got.ret
                 hits == {i \in 1..Len(data) : Match(doc, data[i])}
             IN  IF hits = {}
                 THEN Outcome("none", Written(data), <<>>)
                 ELSE LET first == CHOOSE i \in hits : \A j \in hits : i <= j
                      IN  Outcome("none", Written(ListRemove(data, data[first])), <<>>)

\* for dic in data.copy(): if doc.items() <= dic.items(): data.remove(dic)
RECURSIVE RemoveEachMatch(_, _, _)
RemoveEachMatch(copy, data, doc) ==
    IF copy = <<>>
    THEN data
    ELSE RemoveEachMatch(Tail(copy),
                         IF Match(doc, Head(copy)) THEN ListRemove(data, Head(copy)) ELSE data,
                         doc)

\* (mutant) for dic in data: ... data.remove(dic) -- iterating the list that is
\* being shortened skips the element that follows each removed one
RECURSIVE RemoveWhileIterating(_, _, _)
RemoveWhileIterating(data, index, doc) ==
    IF index > Len(data)
    THEN data
    ELSE IF Match(doc, data[index])
         THEN RemoveWhileIterating(ListRemove(data, data[index]), index + 1, doc)
         ELSE RemoveWhileIterating(data, index + 1, doc)

LocalJSONStorage_remove_many_docs_by_dict_NoCopy(st, doc) ==
    LET got == LocalJSONStorage_get_data(st, {}, EmptyDoc, 0)
    IN  IF got.err # "none"
        THEN Outcome("StorageException", st, <<>>)
        ELSE Outcome("none", Written(RemoveWhileIterating(got.ret, 1, doc)), <<>>)

LocalJSONStorage_remove_many_docs_by_dict(st, doc) ==
    LET got == LocalJSONStorage_get_data(st, {}, EmptyDoc, 0)
    IN  IF got.err # "none"
        THEN Outcome("StorageException", st, <<>>)
        ELSE Outcome("none", Written(RemoveEachMatch(got.ret, got.ret, doc)), <<>>)

\* data[index][id_column] == id, a missing id_column raises KeyError and is skipped
HasId(d, id_column, id) == id_column \in DOMAIN d /\ d[id_column] = id

LocalJSONStorage_update_one_doc(st, id_column, id, doc) ==
    LET got == LocalJSONStorage_get_data(st, {}, EmptyDoc, 0)
    IN  IF got.err # "none"
        THEN Outcome("StorageException", st, <<>>)
        ELSE LET data == got.ret
                 hits == {i \in 1..Len(data) : HasId(data[i], id_column, id)}
             IN  IF hits = {}
                 THEN Outcome("none", st, <<>>)
                 ELSE LET first == CHOOSE i \in hits : \A j \in hits : i <= j
                      IN  Outcome("none",
                                  Written([data EXCEPT ![first] = Merge(data[first], doc)]),
                                  <<>>)

LocalJSONStorage_update_many_docs(st, id_column, id, doc) ==
    LET got == LocalJSONStorage_get_data(st, {}, EmptyDoc, 0)
    IN  IF got.err # "none"
        THEN Outcome("StorageException", st, <<>>)
        ELSE LET data == got.ret
                 hits == {i \in 1..Len(data) : HasId(data[i], id_column, id)}
             IN  IF hits = {}
                 THEN Outcome("none", st, <<>>)
                 ELSE Outcome("none",
                              Written([i \in 1..Len(data) |->
                                         IF i \in hits THEN Merge(data[i], doc) ELSE data[i]]),
                              <<>>)

-----------------------------------------------------------------------------
(* The earlier LocalJSONStorage of src/storage_managing: the same code but  *)
(* for its update methods, whose bodies are "pass"                          *)

LegacyLocalJSONStorage_update_one_doc(st, id_column, id, doc) == Outcome("none", st, <<>>)

LegacyLocalJSONStorage_update_many_docs(st, id_column, id, doc) == Outcome("none", st, <<>>)

-----------------------------------------------------------------------------
(* MongoDBStorage: every call is one call of the pymongo driver.           *)
(* find / delete / update visit the documents in natural (insertion)       *)
(* order; every stored document has a unique "_id", which the driver       *)
(* generates (an ObjectId, here a number above every user-supplied value)  *)
(* when the inserted document has none.                                    *)

ObjectId(n) == 100 + n

NewObjectId(docs) ==
    ObjectId(CHOOSE n \in 1..(Len(docs) + 1) :
                /\ \A i \in 1..Len(docs) : docs[i]["_id"] # ObjectId(n)
                /\ \A m \in 1..(n - 1) : \E i \in 1..Len(docs) : docs[i]["_id"] = ObjectId(m))

Mongo_find(st, doc) == SelectSeq(st.docs, LAMBDA x : Match(doc, x))

\* the driver gives a document without "_id" a generated one, in the caller's
\* dict itself, before it sends the document
Mongo_with_id(st, doc) ==
    IF "_id" \in DOMAIN doc
    THEN doc
    ELSE Merge(doc, [key \in {"_id"} |-> NewObjectId(st.docs)])

\* collection.insert_one(doc)
Mongo_insert(st, doc) ==
    IF "_id" \in DOMAIN doc
    THEN IF \E i \in 1..Len(st.docs) : st.docs[i]["_id"] = doc["_id"]
         THEN Outcome("StorageException", st, <<>>)
         ELSE Outcome("none", Written(Append(st.docs, doc)), <<>>)
    ELSE Outcome("none", Written(Append(st.docs, Mongo_with_id(st, doc))), <<>>)

MongoDBStorage_get_data(st, columns, doc, count) ==
    LET db_data == IF count # 0 THEN Take(Mongo_find(st, doc), count) ELSE Mongo_find(st, doc)
        sliced == dict_list_slice(db_data, columns)
    IN  IF sliced.err # "none"
        THEN Outcome("StorageException", st, <<>>)
        ELSE Outcome("none", st, sliced.ret)

\* limit(0) is "no limit", and the branch with a count does not pass it on
MongoDBStorage_get_data_by_column(st, by, value, columns, count) ==
    LET db_data == Mongo_find(st, [key \in {by} |-> value])
        sliced == dict_list_slice(db_data, columns)
    IN  IF sliced.err # "none"
        THEN Outcome("StorageException", st, <<>>)
        ELSE Outcome("none", st, sliced.ret)

MongoDBStorage_insert_one_doc(st, doc) == Mongo_insert(st, doc)

\* collection.insert_many(docs): the documents are inserted in order up to the
\* first one the database refuses; an empty list is refused by the driver
RECURSIVE Mongo_insert_many(_, _)
Mongo_insert_many(st, docs) ==
    IF docs = <<>>
    THEN Outcome("none", st, <<>>)
    ELSE IF Mongo_insert(st, Head(docs)).err # "none"
         THEN Outcome("StorageException", st, <<>>)
         ELSE Mongo_insert_many(Mongo_insert(st, Head(docs)).store, Tail(docs))

MongoDBStorage_insert_many_docs(st, docs) ==
    IF docs = <<>>
    THEN Outcome("StorageException", st, <<>>)
    ELSE Mongo_insert_many(st, docs)

\* (mutant) collection.delete_many(doc) in place of delete_one
MongoDBStorage_remove_one_doc_by_dict_DeleteMany(st, doc) ==
    Outcome("none", [st EXCEPT !.docs = SelectSeq(st.docs, LAMBDA x : ~Match(doc, x))], <<>>)

\* collection.delete_one(doc)
MongoDBStorage_remove_one_doc_by_dict(st, doc) ==
    LET hits == {i \in 1..Len(st.docs) : Match(doc, st.docs[i])}
    IN  IF hits = {}
        THEN Outcome("none", st, <<>>)
        ELSE Outcome("none",
                     [st EXCEPT !.docs = RemoveAt(st.docs, CHOOSE i \in hits : \A j \in hits : i <= j)],
                     <<>>)

\* collection.delete_many(doc)
MongoDBStorage_remove_many_docs_by_dict(st, doc) ==
    Outcome("none", [st EXCEPT !.docs = SelectSeq(st.docs, LAMBDA x : ~Match(doc, x))], <<>>)

\* {'$set': doc} on a stored document; "_id" is immutable
Mongo_set(d, doc) ==
    IF "_id" \in DOMAIN doc /\ doc["_id"] # d["_id"]
    THEN [err |-> "WriteError", doc |-> d]
    ELSE [err |-> "none", doc |-> Merge(d, doc)]

\* (mutant) update_one without upsert=True
MongoDBStorage_update_one_doc_NoUpsert(st, id_column, id, doc) ==
    LET hits == {i \in 1..Len(st.docs) : Match([key \in {id_column} |-> id], st.docs[i])}
    IN  IF hits = {}
        THEN Outcome("none", st, <<>>)
        ELSE LET first == CHOOSE i \in hits : \A j \in hits : i <= j
                 set == Mongo_set(st.docs[first], doc)
             IN  IF set.err # "none"
                 THEN Outcome("StorageException", st, <<>>)
                 ELSE Outcome("none", [st EXCEPT !.docs[first] = set.doc], <<>>)

\* collection.update_one({id_column: id}, {'$set': doc}, upsert=True)
MongoDBStorage_update_one_doc(st, id_column, id, doc) ==
    LET hits == {i \in 1..Len(st.docs) : Match([key \in {id_column} |-> id], st.docs[i])}
    IN  IF hits = {}
        THEN Mongo_insert(st, Merge([key \in {id_column} |-> id], doc))
        ELSE LET first == CHOOSE i \in hits : \A j \in hits : i <= j
                 set == Mongo_set(st.docs[first], doc)
             IN  IF set.err # "none"
                 THEN Outcome("StorageException", st, <<>>)
                 ELSE Outcome("none", [st EXCEPT !.docs[first] = set.doc], <<>>)

\* collection.update_many({id_column: id}, {'$set': doc}, upsert=True)
MongoDBStorage_update_many_docs(st, id_column, id, doc) ==
    LET hits == {i \in 1..Len(st.docs) : Match([key \in {id_column} |-> id], st.docs[i])}
    IN  IF hits = {}
        THEN Mongo_insert(st, Merge([key \in {id_column} |-> id], doc))
        ELSE IF \E i \in hits : Mongo_set(st.docs[i], doc).err # "none"
             THEN Outcome("StorageException", st, <<>>)
             ELSE Outcome("none",
                          [st EXCEPT !.docs = [i \in 1..Len(st.docs) |->
                                 IF i \in hits THEN Mongo_set(st.docs[i], doc).doc ELSE st.docs[i]]],
                          <<>>)

-----------------------------------------------------------------------------
(* Storage: the interface the rest of the program calls, bound to the     *)
(* implementation chosen at construction                                  *)

Backends == {"local", "legacy_local", "mongo"}

Storage_get_data(b, st, columns, doc, count) ==
    IF b = "mongo"
    THEN MongoDBStorage_get_data(st, columns, doc, count)
    ELSE LocalJSONStorage_get_data(st, columns, doc, count)

Storage_get_data_by_column(b, st, by, value, columns, count) ==
    IF b = "mongo"
    THEN MongoDBStorage_get_data_by_column(st, by, value, columns, count)
    ELSE LocalJSONStorage_get_data_by_column(st, by, value, columns, count)

Storage_insert_one_doc(b, st, doc) ==
    IF b = "mongo"
    THEN MongoDBStorage_insert_one_doc(st, doc)
    ELSE LocalJSONStorage_insert_one_doc(st, doc)

\* the document as the caller holds it when insert_one_doc has returned
Storage_inserted_doc(b, st, doc) == IF b = "mongo" THEN Mongo_with_id(st, doc) ELSE doc

Storage_insert_many_docs(b, st, docs) ==
    IF b = "mongo"
    THEN MongoDBStorage_insert_many_docs(st, docs)
    ELSE LocalJSONStorage_insert_many_docs(st, docs)

Storage_remove_one_doc_by_dict(b, st, doc) ==
    IF b = "mongo"
    THEN MongoDBStorage_remove_one_doc_by_dict(st, doc)
    ELSE LocalJSONStorage_remove_one_doc_by_dict(st, doc)

Storage_remove_many_docs_by_dict(b, st, doc) ==
    IF b = "mongo"
    THEN MongoDBStorage_remove_many_docs_by_dict(st, doc)
    ELSE LocalJSONStorage_remove_many_docs_by_dict(st, doc)

Storage_update_one_doc(b, st, id_column, id, doc) ==
    CASE b = "mongo" -> MongoDBStorage_update_one_doc(st, id_column, id, doc)
      [] b = "legacy_local" -> LegacyLocalJSONStorage_update_one_doc(st, id_column, id, doc)
      [] OTHER -> LocalJSONStorage_update_one_doc(st, id_column, id, doc)

Storage_update_many_docs(b, st, id_column, id, doc) ==
    CASE b = "mongo" -> MongoDBStorage_update_many_docs(st, id_column, id, doc)
      [] b = "legacy_local" -> LegacyLocalJSONStorage_update_many_docs(st, id_column, id, doc)
      [] OTHER -> LocalJSONStorage_update_many_docs(st, id_column, id, doc)

-----------------------------------------------------------------------------
(* SpecStorage: a client that calls the Storage operations on one          *)
(* collection, with documents, filters and patches from small sets         *)

InsertDocs ==
    { [_id |-> 1, k |-> 1], [_id |-> 2, k |-> 1], [_id |-> 1, k |-> 1, v |-> 1], [k |-> 1] }

Filters ==
    { EmptyDoc, [k |-> 1], [k |-> 2], [_id |-> 1], [_id |-> 1, k |-> 1], [k |-> 1, v |-> 1] }

Patches == { [k |-> 2], [v |-> 1] }

IdColumns == {"_id", "k"}

IdValues == {1, 2}

ColumnSets == { {}, {"k"} }

Counts == {0, 1}

\* TelegramBot.__init__ builds StateManager(storage, users_collection,
\* with_params=state_with_params): free_status keeps its default, and
\* state_with_params is False unless the application asks for it
BotConfig == [with_params |-> FALSE, free_status |-> "free"]

NoCollection == [file |-> "missing", docs |-> <<>>]

\* a collection file that json.load cannot decode
Undecodable == [file |-> "corrupt", docs |-> <<>>]

Call(op, doc, id_column, id, columns, count, out) ==
    [op |-> op, doc |-> doc, id_column |-> id_column, id |-> id, columns |-> columns,
     count |-> count, pre |-> store, err |-> out.err, ret |-> out.ret, held |-> doc]

NoCall ==
    [op |-> "none", doc |-> EmptyDoc, id_column |-> "", id |-> 0, columns |-> {},
     count |-> 0, pre |-> NoCollection, err |-> "none", ret |-> <<>>, held |-> EmptyDoc]

NoRoles == [role \in {} |-> ""]

\* no document came with the event
NoDocument == [file_name |-> "", mime_type |-> ""]

NotServed ==
    [op |-> "none", user_id |-> 0, text |-> <<>>, failed |-> "none", err |-> "none",
     state |-> "", roles |-> <<>>, found |-> <<>>, calls |-> <<>>, routes |-> <<>>,
     pre |-> NoCollection, post |-> NoCollection,
     role |-> "", password |-> "", catalog |-> NoRoles,
     value |-> "", answer |-> FALSE, document |-> NoDocument, kwargs |-> {}]

NoProbe ==
    [user_state |-> "", user_roles |-> <<>>, states |-> <<>>, roles |-> <<>>,
     applied |-> FALSE, is_accessible_with |-> FALSE, has_access |-> FALSE]

NoTwin ==
    [op |-> "none", local |-> NoCollection, mongo |-> NoCollection,
     local_err |-> "none", mongo_err |-> "none", local_ret |-> <<>>, mongo_ret |-> <<>>,
     plain |-> TRUE]

NoThreads == <<>>

InitStorage ==
    /\ backend \in Backends
    /\ config = BotConfig
    /\ message_routes = <<>>
    /\ document_routes = <<>>
    /\ store = NoCollection
    /\ last = NoCall
    /\ roles = NoRoles
    /\ command_routes = <<>>
    /\ served = NotServed
    /\ probe = NoProbe
    /\ twin = NoTwin
    /\ threads = NoThreads

get_data ==
    \E doc \in Filters, columns \in ColumnSets, count \in Counts :
        LET out == Storage_get_data(backend, store, columns, doc, count)
        IN  /\ last' = Call("get_data", doc, "", 0, columns, count, out)
            /\ store' = out.store
            /\ UNCHANGED <<backend, config, message_routes, document_routes, roles, command_routes, served, probe, twin, threads>>

get_data_by_column ==
    \E by \in IdColumns, value \in IdValues, columns \in ColumnSets, count \in Counts :
        LET out == Storage_get_data_by_column(backend, store, by, value, columns, count)
        IN  /\ last' = Call("get_data_by_column", EmptyDoc, by, value, columns, count, out)
            /\ store' = out.store
            /\ UNCHANGED <<backend, config, message_routes, document_routes, roles, command_routes, served, probe, twin, threads>>

insert_one_doc ==
    \E doc \in InsertDocs :
        LET out == Storage_insert_one_doc(backend, store, doc)
        IN  /\ Len(store.docs) < MaxDocs
            /\ last' = [Call("insert_one_doc", doc, "", 0, {}, 0, out)
                         EXCEPT !.held = Storage_inserted_doc(backend, store, doc)]
            /\ store' = out.store
            /\ UNCHANGED <<backend, config, message_routes, document_routes, roles, command_routes, served, probe, twin, threads>>

remove_one_doc_by_dict ==
    \E doc \in Filters :
        LET out == Storage_remove_one_doc_by_dict(backend, store, doc)
        IN  /\ last' = Call("remove_one_doc_by_dict", doc, "", 0, {}, 0, out)
            /\ store' = out.store
            /\ UNCHANGED <<backend, config, message_routes, document_routes, roles, command_routes, served, probe, twin, threads>>

remove_many_docs_by_dict ==
    \E doc \in Filters :
        LET out == Storage_remove_many_docs_by_dict(backend, store, doc)
        IN  /\ last' = Call("remove_many_docs_by_dict", doc, "", 0, {}, 0, out)
            /\ store' = out.store
            /\ UNCHANGED <<backend, config, message_routes, document_routes, roles, command_routes, served, probe, twin, threads>>

update_one_doc ==
    \E id_column \in IdColumns, id \in IdValues, doc \in Patches :
        LET out == Storage_update_one_doc(backend, store, id_column, id, doc)
        IN  /\ id_column \notin DOMAIN doc
            /\ Len(out.store.docs) <= MaxDocs
            /\ last' = Call("update_one_doc", doc, id_column, id, {}, 0, out)
            /\ store' = out.store
            /\ UNCHANGED <<backend, config, message_routes, document_routes, roles, command_routes, served, probe, twin, threads>>

update_many_docs ==
    \E id_column \in IdColumns, id \in IdValues, doc \in Patches :
        LET out == Storage_update_many_docs(backend, store, id_column, id, doc)
        IN  /\ id_column \notin DOMAIN doc
            /\ Len(out.store.docs) <= MaxDocs
            /\ last' = Call("update_many_docs", doc, id_column, id, {}, 0, out)
            /\ store' = out.store
            /\ UNCHANGED <<backend, config, message_routes, document_routes, roles, command_routes, served, probe, twin, threads>>

\* the file of a local collection is left without JSON text: open(file, 'w')
\* has emptied it and the process stopped before json.dump wrote the data
truncate_file ==
    /\ backend # "mongo"
    /\ store.file = "ok"
    /\ store' = Undecodable
    /\ last' = [NoCall EXCEPT !.op = "truncate_file", !.pre = store]
    /\ UNCHANGED <<backend, config, message_routes, document_routes, roles, command_routes, served, probe, twin, threads>>

NextStorage ==
    \/ get_data
    \/ get_data_by_column
    \/ insert_one_doc
    \/ remove_one_doc_by_dict
    \/ remove_many_docs_by_dict
    \/ update_one_doc
    \/ update_many_docs
    \/ truncate_file

SpecStorage == InitStorage /\ [][NextStorage]_vars

TypeStorage ==
    /\ backend \in Backends
    /\ store.file \in {"missing", "ok", "corrupt"}
    /\ backend = "mongo" => store.file # "corrupt"
    /\ Len(store.docs) <= MaxDocs

-----------------------------------------------------------------------------
(* SpecTwin: one client makes the same Storage calls on a LocalJSONStorage *)
(* and on a MongoDBStorage whose collections start with the same contents  *)

InitialContents == { <<>>, <<[_id |-> 1, k |-> 1]>>, <<[_id |-> 1, k |-> 1], [_id |-> 2, k |-> 1]>> }

InsertLists == { <<>>, <<[_id |-> 2, k |-> 1]>>, <<[_id |-> 2, k |-> 1], [_id |-> 2, k |-> 1]>> }

\* the two outcomes of one call; plain: every call so far was one that stores
\* only documents with a new "_id" of their own, updates only stored documents
\* and passes no count to get_data_by_column
Twin(op, plain, local_out, mongo_out) ==
    [op |-> op, local |-> local_out.store, mongo |-> mongo_out.store,
     local_err |-> local_out.err, mongo_err |-> mongo_out.err,
     local_ret |-> local_out.ret, mongo_ret |-> mongo_out.ret,
     plain |-> twin.plain /\ plain]

InitTwin ==
    /\ backend = "local"
    /\ config = BotConfig
    /\ message_routes = <<>>
    /\ document_routes = <<>>
    /\ store = NoCollection
    /\ last = NoCall
    /\ roles = NoRoles
    /\ command_routes = <<>>
    /\ served = NotServed
    /\ probe = NoProbe
    /\ \E docs \in InitialContents :
          twin = [NoTwin EXCEPT !.local = Written(docs), !.mongo = Written(docs)]
    /\ threads = NoThreads

Stores(st, id_column, id) == \E i \in 1..Len(st.docs) : HasId(st.docs[i], id_column, id)

NewIds(st, docs) ==
    /\ \A i \in 1..Len(docs) : "_id" \in DOMAIN docs[i] /\ ~Stores(st, "_id", docs[i]["_id"])
    /\ \A i, j \in 1..Len(docs) : i # j => docs[i]["_id"] # docs[j]["_id"]

twin_get_data ==
    \E doc \in Filters, columns \in ColumnSets, count \in Counts :
        /\ twin' = Twin("get_data", TRUE,
                        LocalJSONStorage_get_data(twin.local, columns, doc, count),
                        MongoDBStorage_get_data(twin.mongo, columns, doc, count))
        /\ UNCHANGED <<backend, config, message_routes, document_routes, store, last, roles, command_routes, served, probe, threads>>

twin_get_data_by_column ==
    \E by \in IdColumns, value \in IdValues, columns \in ColumnSets, count \in Counts :
        /\ twin' = Twin("get_data_by_column", count = 0,
                        LocalJSONStorage_get_data_by_column(twin.local, by, value, columns, count),
                        MongoDBStorage_get_data_by_column(twin.mongo, by, value, columns, count))
        /\ UNCHANGED <<backend, config, message_routes, document_routes, store, last, roles, command_routes, served, probe, threads>>

twin_insert_one_doc ==
    \E doc \in InsertDocs :
        /\ Len(twin.local.docs) < MaxDocs /\ Len(twin.mongo.docs) < MaxDocs
        /\ twin' = Twin("insert_one_doc", NewIds(twin.mongo, <<doc>>),
                        LocalJSONStorage_insert_one_doc(twin.local, doc),
                        MongoDBStorage_insert_one_doc(twin.mongo, doc))
        /\ UNCHANGED <<backend, config, message_routes, document_routes, store, last, roles, command_routes, served, probe, threads>>

twin_insert_many_docs ==
    \E docs \in InsertLists :
        /\ Len(twin.local.docs) + Len(docs) <= MaxDocs
        /\ Len(twin.mongo.docs) + Len(docs) <= MaxDocs
        /\ twin' = Twin("insert_many_docs", docs # <<>> /\ NewIds(twin.mongo, docs),
                        LocalJSONStorage_insert_many_docs(twin.local, docs),
                        MongoDBStorage_insert_many_docs(twin.mongo, docs))
        /\ UNCHANGED <<backend, config, message_routes, document_routes, store, last, roles, command_routes, served, probe, threads>>

twin_remove_one_doc_by_dict ==
    \E doc \in Filters :
        /\ twin' = Twin("remove_one_doc_by_dict", TRUE,
                        LocalJSONStorage_remove_one_doc_by_dict(twin.local, doc),
                        MongoDBStorage_remove_one_doc_by_dict(twin.mongo, doc))
        /\ UNCHANGED <<backend, config, message_routes, document_routes, store, last, roles, command_routes, served, probe, threads>>

twin_remove_many_docs_by_dict ==
    \E doc \in Filters :
        /\ twin' = Twin("remove_many_docs_by_dict", TRUE,
                        LocalJSONStorage_remove_many_docs_by_dict(twin.local, doc),
                        MongoDBStorage_remove_many_docs_by_dict(twin.mongo, doc))
        /\ UNCHANGED <<backend, config, message_routes, document_routes, store, last, roles, command_routes, served, probe, threads>>

twin_update_one_doc ==
    \E id_column \in IdColumns, id \in IdValues, doc \in Patches :
        /\ id_column \notin DOMAIN doc
        /\ Len(twin.mongo.docs) < MaxDocs \/ Stores(twin.mongo, id_column, id)
        /\ twin' = Twin("update_one_doc", Stores(twin.mongo, id_column, id),
                        LocalJSONStorage_update_one_doc(twin.local, id_column, id, doc),
                        MongoDBStorage_update_one_doc(twin.mongo, id_column, id, doc))
        /\ UNCHANGED <<backend, config, message_routes, document_routes, store, last, roles, command_routes, served, probe, threads>>

twin_update_many_docs ==
    \E id_column \in IdColumns, id \in IdValues, doc \in Patches :
        /\ id_column \notin DOMAIN doc
        /\ Len(twin.mongo.docs) < MaxDocs \/ Stores(twin.mongo, id_column, id)
        /\ twin' = Twin("update_many_docs", Stores(twin.mongo, id_column, id),
                        LocalJSONStorage_update_many_docs(twin.local, id_column, id, doc),
                        MongoDBStorage_update_many_docs(twin.mongo, id_column, id, doc))
        /\ UNCHANGED <<backend, config, message_routes, document_routes, store, last, roles, command_routes, served, probe, threads>>

NextTwin ==
    \/ twin_get_data
    \/ twin_get_data_by_column
    \/ twin_insert_one_doc
    \/ twin_insert_many_docs
    \/ twin_remove_one_doc_by_dict
    \/ twin_remove_many_docs_by_dict
    \/ twin_update_one_doc
    \/ twin_update_many_docs

SpecTwin == InitTwin /\ [][NextTwin]_vars

-----------------------------------------------------------------------------
(* SpecRace: two threads call LocalJSONStorage.insert_one_doc on the same  *)
(* collection. A call is three steps with no lock around them: it reads    *)
(* the whole file, opens it for writing (which empties it) and dumps the   *)
(* list it read with its document appended.                                *)

Threads == {1, 2}

RaceDocs == { [_id |-> 1, k |-> 1], [_id |-> 2, k |-> 1], [k |-> 1] }

RaceContents == { NoCollection, Written(<<>>), Written(<<[_id |-> 1, k |-> 2]>>) }

Other(t) == CHOOSE u \in Threads : u # t

\* a call is in progress between its read and its dump
Active(t) == threads[t].pc \in {"open", "dump"}

InitRace ==
    /\ backend = "local"
    /\ config = BotConfig
    /\ message_routes = <<>>
    /\ document_routes = <<>>
    /\ store \in RaceContents
    /\ last = NoCall
    /\ roles = NoRoles
    /\ command_routes = <<>>
    /\ served = NotServed
    /\ probe = NoProbe
    /\ twin = NoTwin
    /\ \E docs \in {p \in RaceDocs \X RaceDocs : p[1] # p[2]} :
          threads = [t \in Threads |->
                        [pc |-> "read", doc |-> docs[t], data |-> <<>>, alone |-> TRUE,
                         initial |-> store.docs]]

\* data = self.get_data(collection) or [];  data.append(doc)
insert_read(t) ==
    /\ threads[t].pc = "read"
    /\ threads' = [threads EXCEPT
          ![t].pc = "open",
          ![t].data = Append(LocalJSONStorage_read_or_empty(store), threads[t].doc),
          ![t].alone = ~Active(Other(t))]
    /\ UNCHANGED <<backend, config, message_routes, document_routes, store, last, roles, command_routes, served, probe, twin>>

\* with open(file_name, 'w') as data_file: the file is created or emptied
insert_open(t) ==
    /\ threads[t].pc = "open"
    /\ store' = Undecodable
    /\ threads' = [threads EXCEPT ![t].pc = "dump"]
    /\ UNCHANGED <<backend, config, message_routes, document_routes, last, roles, command_routes, served, probe, twin>>

\* json.dump(data, data_file); data_file.close(): the text is written from the
\* start of the file. When another thread has written the file since this
\* one opened it, the text lands on top of the other's: the file holds this
\* thread's list, or no JSON text when the other's text was longer
insert_dump(t) ==
    /\ threads[t].pc = "dump"
    /\ \/ store' = Written(threads[t].data)
       \/ store.file = "ok" /\ store' = Undecodable
    /\ threads' = [threads EXCEPT ![t].pc = "done"]
    /\ UNCHANGED <<backend, config, message_routes, document_routes, last, roles, command_routes, served, probe, twin>>

NextRace ==
    \E t \in Threads :
        \/ insert_read(t)
        \/ insert_open(t)
        \/ insert_dump(t)

SpecRace == InitRace /\ [][NextRace]_vars

-----------------------------------------------------------------------------
(* StateManager, RoleAuth and UserMetaStorage on the users collection,    *)
(* with the column names their constructors default to. The result of a   *)
(* Storage call is handed to the rest of the method as an argument.       *)

Value(err, value) == [err |-> err, value |-> value]

\* if not response: raise StateError; return response[0][status_column]
StateManager_state_of(response) ==
    IF response.err # "none"
    THEN Value(response.err, "")
    ELSE IF response.ret = <<>>
         THEN Value("StateError", "")
         ELSE Value("none", response.ret[1]["State"])

StateManager_get_state(b, st, user_id) ==
    StateManager_state_of(Storage_get_data_by_column(b, st, "_id", user_id, {"State"}, 0))

\* except: raise StateError
StateManager_written(st, out) ==
    IF out.err # "none" THEN Outcome("StateError", st, <<>>) ELSE out

\* status_doc = {status_column: status}, and the params as well if with_params
StateManager_status_doc(cfg, status, params) ==
    IF cfg.with_params
    THEN [State |-> status, State_Params |-> params]
    ELSE [State |-> status]

StateManager_set_state(b, st, cfg, user_id, status, params) ==
    StateManager_written(st, Storage_update_one_doc(b, st, "_id", user_id,
                                 StateManager_status_doc(cfg, status, params)))

\* set_state(user_id, free_status), with params={} if with_params
StateManager_set_free(b, st, cfg, user_id) ==
    StateManager_set_state(b, st, cfg, user_id, cfg.free_status, <<>>)

\* if not response: raise StateError; return response[0][params_column]
StateManager_params_of(response) ==
    IF response.err # "none"
    THEN Value(response.err, <<>>)
    ELSE IF response.ret = <<>>
         THEN Value("StateError", <<>>)
         ELSE Value("none", response.ret[1]["State_Params"])

\* a lookup of the params that goes to the storage whatever the mode is
StateManager_get_state_params_AnyMode(b, st, cfg, user_id) ==
    StateManager_params_of(Storage_get_data_by_column(b, st, "_id", user_id, {"State_Params"}, 0))

\* if not self.__with_params: raise StateError, before the storage is asked
StateManager_get_state_params(b, st, cfg, user_id) ==
    IF ~cfg.with_params
    THEN Value("StateError", <<>>)
    ELSE StateManager_params_of(
             Storage_get_data_by_column(b, st, "_id", user_id, {"State_Params"}, 0))

\* with_params: user_status[self.__status_column] indexes the state name, a
\* str, with a str, which raises TypeError; else user_status == free_status
StateManager_free_of(cfg, user_status) ==
    IF user_status.err # "none"
    THEN [err |-> user_status.err, value |-> user_status.value, answer |-> FALSE]
    ELSE IF cfg.with_params
         THEN [err |-> "TypeError", value |-> user_status.value, answer |-> FALSE]
         ELSE [err |-> "none", value |-> user_status.value,
               answer |-> user_status.value = cfg.free_status]

StateManager_is_free(b, st, cfg, user_id) ==
    StateManager_free_of(cfg, StateManager_get_state(b, st, user_id))

\* if not roles: raise RoleError; return roles[0][roles_column]
RoleAuth_roles_of(found) ==
    IF found.err # "none"
    THEN Value(found.err, <<>>)
    ELSE IF found.ret = <<>>
         THEN Value("RoleError", <<>>)
         ELSE IF "Roles" \notin DOMAIN found.ret[1]
              THEN Value("KeyError", <<>>)
              ELSE Value("none", found.ret[1]["Roles"])

RoleAuth_get_user_roles(b, st, user_id) ==
    RoleAuth_roles_of(Storage_get_data_by_column(b, st, "_id", user_id, {}, 0))

\* a login that appends the role whether or not it is held
RoleAuth_grant_Always(b, st, role, user_id, user_roles) ==
    IF user_roles.err # "none"
    THEN Outcome(user_roles.err, st, <<>>)
    ELSE Storage_update_one_doc(b, st, "_id", user_id,
                                [Roles |-> Append(user_roles.value, role)])

\* if role not in user_roles: append and update_one_doc, else raise AlreadyLoggedError
RoleAuth_grant(b, st, role, user_id, user_roles) ==
    IF user_roles.err # "none"
    THEN Outcome(user_roles.err, st, <<>>)
    ELSE IF role \notin Range(user_roles.value)
         THEN Storage_update_one_doc(b, st, "_id", user_id,
                                     [Roles |-> Append(user_roles.value, role)])
         ELSE Outcome("AlreadyLoggedError", st, <<>>)

\* a login that does not look at the password
RoleAuth_login_as_NoPassword(b, st, catalog, role, user_id, password) ==
    IF role \notin DOMAIN catalog
    THEN Outcome("RoleError", st, <<>>)
    ELSE RoleAuth_grant(b, st, role, user_id, RoleAuth_get_user_roles(b, st, user_id))

RoleAuth_login_as(b, st, catalog, role, user_id, password) ==
    IF role \notin DOMAIN catalog
    THEN Outcome("RoleError", st, <<>>)
    ELSE IF catalog[role] # password
         THEN Outcome("PasswordError", st, <<>>)
         ELSE RoleAuth_grant(b, st, role, user_id, RoleAuth_get_user_roles(b, st, user_id))

\* return role in self.get_user_roles(user_id)
RoleAuth_held_in(role, user_roles) ==
    IF user_roles.err # "none"
    THEN Value(user_roles.err, FALSE)
    ELSE Value("none", role \in Range(user_roles.value))

RoleAuth_is_loggined_as(b, st, role, user_id) ==
    RoleAuth_held_in(role, RoleAuth_get_user_roles(b, st, user_id))

\* a logout that drops every occurrence of the role's name and everything after it
RoleAuth_revoke_Truncating(b, st, role, user_id, user_roles) ==
    IF user_roles.err # "none"
    THEN Outcome(user_roles.err, st, <<>>)
    ELSE IF role \in Range(user_roles.value)
         THEN Storage_update_one_doc(b, st, "_id", user_id, [Roles |-> <<>>])
         ELSE Outcome("AlreadyLoggedError", st, <<>>)

\* if role in user_roles: user_roles.remove(role) and update_one_doc, else raise
\* AlreadyLoggedError
RoleAuth_revoke(b, st, role, user_id, user_roles) ==
    IF user_roles.err # "none"
    THEN Outcome(user_roles.err, st, <<>>)
    ELSE IF role \in Range(user_roles.value)
         THEN Storage_update_one_doc(b, st, "_id", user_id,
                                     [Roles |-> ListRemove(user_roles.value, role)])
         ELSE Outcome("AlreadyLoggedError", st, <<>>)

\* only the role is checked: logging out takes no password
RoleAuth_logout_as(b, st, catalog, role, user_id) ==
    IF role \notin DOMAIN catalog
    THEN Outcome("RoleError", st, <<>>)
    ELSE RoleAuth_revoke(b, st, role, user_id, RoleAuth_get_user_roles(b, st, user_id))

\* an addition that keeps the password of a role the catalog already has
RoleAuth_add_role_KeepsFirst(catalog, role, password) ==
    IF role \in DOMAIN catalog
    THEN catalog
    ELSE [r \in DOMAIN catalog \cup {role} |-> IF r = role THEN password ELSE catalog[r]]

\* self.__roles[role] = {'password': password}: a role of that name is replaced
RoleAuth_add_role(catalog, role, password) ==
    [r \in DOMAIN catalog \cup {role} |-> IF r = role THEN password ELSE catalog[r]]

\* a removal that does not look at the password
RoleAuth_remove_role_Unchecked(catalog, role, password) ==
    IF role \notin DOMAIN catalog
    THEN [err |-> "RoleError", roles |-> catalog]
    ELSE [err |-> "none", roles |-> [r \in DOMAIN catalog \ {role} |-> catalog[r]]]

\* __role_check, __password_check, then self.__roles.pop(role)
RoleAuth_remove_role(catalog, role, password) ==
    IF role \notin DOMAIN catalog
    THEN [err |-> "RoleError", roles |-> catalog]
    ELSE IF catalog[role] # password
         THEN [err |-> "PasswordError", roles |-> catalog]
         ELSE [err |-> "none", roles |-> [r \in DOMAIN catalog \ {role} |-> catalog[r]]]

\* return True if users else False
UserMetaStorage_exists_of(users) ==
    IF users.err # "none" THEN Value(users.err, FALSE) ELSE Value("none", users.ret # <<>>)

UserMetaStorage_user_exists(b, st, user_id) ==
    UserMetaStorage_exists_of(Storage_get_data_by_column(b, st, "_id", user_id, {}, 0))

\* if not self.user_exists(user_id): init_dict[id_column] = user_id; insert_one_doc
UserMetaStorage_insert_if_new(b, st, user_id, init_dict, exists) ==
    IF exists.err # "none"
    THEN Outcome(exists.err, st, <<>>)
    ELSE IF ~exists.value
         THEN Storage_insert_one_doc(b, st, Merge(init_dict, [_id |-> user_id]))
         ELSE Outcome("none", st, <<>>)

UserMetaStorage_user_initialize(b, st, user_id, init_dict) ==
    UserMetaStorage_insert_if_new(b, st, user_id, init_dict,
                                  UserMetaStorage_user_exists(b, st, user_id))

\* except: raise UserMetaError
UserMetaStorage_written(st, out) ==
    IF out.err # "none" THEN Outcome("UserMetaError", st, <<>>) ELSE out

UserMetaStorage_user_update(b, st, user_id, username, first_name, last_name) ==
    UserMetaStorage_written(st,
        Storage_update_one_doc(b, st, "_id", user_id,
            [Username |-> username, First_Name |-> first_name, Last_Name |-> last_name]))

-----------------------------------------------------------------------------
(* Route and the two access checks of the repository                      *)

Route_is_accessible_with(route, state, user_roles) ==
    IF route.states # <<>> /\ state \notin Range(route.states)
    THEN FALSE
    ELSE IF route.roles # <<>>
         THEN \E i \in 1..Len(route.roles) : route.roles[i] \in Range(user_roles)
         ELSE TRUE

\* TelegramBot.__has_access of src/telegrambot.py
TelegramBot_has_access(user_roles, user_state, states, route_roles) ==
    IF states # <<>> /\ user_state \notin Range(states)
    THEN FALSE
    ELSE IF route_roles # <<>>
         THEN \E i \in 1..Len(route_roles) : route_roles[i] \in Range(user_roles)
         ELSE FALSE

CommandRoute(command, callback, states, route_roles) ==
    [command |-> command, callback |-> callback, states |-> states, roles |-> route_roles]

-----------------------------------------------------------------------------
(* Message texts are sequences of characters                               *)

Whitespace == {" "}

RECURSIVE LStrip(_, _)
LStrip(s, chars) == IF s # <<>> /\ Head(s) \in chars THEN LStrip(Tail(s), chars) ELSE s

RECURSIVE RStrip(_, _)
RStrip(s, chars) ==
    IF s # <<>> /\ s[Len(s)] \in chars THEN RStrip(SubSeq(s, 1, Len(s) - 1), chars) ELSE s

\* str.strip(chars)
Strip(s, chars) == RStrip(LStrip(s, chars), chars)

RECURSIVE UpToWhitespace(_)
UpToWhitespace(s) ==
    IF s = <<>> \/ Head(s) \in Whitespace THEN <<>> ELSE <<Head(s)>> \o UpToWhitespace(Tail(s))

FirstOf(rest) ==
    IF rest = <<>> THEN Value("IndexError", <<>>) ELSE Value("none", UpToWhitespace(rest))

\* str.split()[0]: the first run of characters that are not whitespace
SplitFirst(text) == FirstOf(LStrip(text, Whitespace))

start == <<"s", "t", "a", "r", "t">>

help == <<"h", "e", "l", "p">>

-----------------------------------------------------------------------------
(* TelegramBot (advancedbot) and the callbacks of routes                   *)

\* the keyword arguments Router passes to every callback
Kwargs(user_id, message, user_roles, user_state) ==
    [user_id |-> user_id, message |-> message, username |-> "username",
     first_name |-> "first_name", last_name |-> "last_name",
     roles |-> user_roles, state |-> user_state]

\* self.user_meta.user_update(...) once user_initialize has returned
TelegramBot_update_user(b, user, init) ==
    IF init.err # "none"
    THEN init
    ELSE UserMetaStorage_user_update(b, init.store, user.id,
                                     user.username, user.first_name, user.last_name)

\* TelegramBot.__init_user(**kwargs), the callback of the bootstrap route
TelegramBot_init_user(b, st, kwargs) ==
    IF "user" \notin DOMAIN kwargs
    THEN Outcome("KeyError", st, <<>>)
    ELSE TelegramBot_update_user(b, kwargs["user"],
             UserMetaStorage_user_initialize(b, st, kwargs["user"].id,
                 [Roles |-> <<"user">>, State |-> "free", State_Params |-> <<>>]))

\* route.callback(**kwargs): the bootstrap callback, or a handler of the owning
\* application: one that returns ("handler"), one that raises ("failing_handler")
\* and one that moves its user to another state ("ask_password")
Callback(b, st, callback, kwargs) ==
    CASE callback = "__init_user" -> TelegramBot_init_user(b, st, kwargs)
      [] callback = "failing_handler" -> Outcome("Exception", st, <<>>)
      [] callback = "login_as_admin" ->
            RoleAuth_login_as(b, st, roles, "admin", kwargs.user_id, "secret")
      [] callback = "ask_password" ->
            StateManager_set_state(b, st, config, kwargs.user_id, "awaiting_password", <<>>)
      [] OTHER -> Outcome("none", st, <<>>)

-----------------------------------------------------------------------------
(* Router (advancedbot)                                                    *)

\* the positions, in registration order, of the routes found
RECURSIVE Router_find_command_routes(_, _, _, _, _)
Router_find_command_routes(routes, index, command, state, user_roles) ==
    IF index > Len(routes)
    THEN <<>>
    ELSE (IF command = routes[index].command
             /\ Route_is_accessible_with(routes[index], state, user_roles)
          THEN <<index>>
          ELSE <<>>)
         \o Router_find_command_routes(routes, index + 1, command, state, user_roles)

Baseline == [err |-> "none", state |-> "free", roles |-> <<"user">>]

\* the try / except (StateError, RoleError) around the two lookups
Router_resolved(user_state, user_roles) ==
    IF user_state.err = "none"
    THEN IF user_roles.err = "none"
         THEN [err |-> "none", state |-> user_state.value, roles |-> user_roles.value]
         ELSE IF user_roles.err = "RoleError"
              THEN Baseline
              ELSE [err |-> user_roles.err, state |-> "", roles |-> <<>>]
    ELSE IF user_state.err = "StateError"
         THEN Baseline
         ELSE [err |-> user_state.err, state |-> "", roles |-> <<>>]

Router_resolve(b, st, user_id) ==
    Router_resolved(StateManager_get_state(b, st, user_id),
                    RoleAuth_get_user_roles(b, st, user_id))

\* for route in found_routes: route.callback(...)   -- an exception ends the loop
RECURSIVE Router_invoke(_, _, _, _, _, _)
RECURSIVE Router_invoked(_, _, _, _, _, _)
Router_invoked(b, routes, found, kwargs, calls, out) ==
    IF out.err # "none"
    THEN [err |-> out.err, store |-> out.store, calls |-> Append(calls, Head(found))]
    ELSE Router_invoke(b, out.store, routes, Tail(found), kwargs, Append(calls, Head(found)))

Router_invoke(b, st, routes, found, kwargs, calls) ==
    IF found = <<>>
    THEN [err |-> "none", store |-> st, calls |-> calls]
    ELSE Router_invoked(b, routes, found, kwargs, calls,
                        Callback(b, st, routes[Head(found)].callback, kwargs))

Aborted(failed, err, st) ==
    [failed |-> failed, err |-> err, store |-> st, state |-> "", roles |-> <<>>,
     found |-> <<>>, calls |-> <<>>]

Router_served(resolved, found, run) ==
    [failed |-> IF run.err # "none" THEN "callback" ELSE "none",
     err |-> run.err, store |-> run.store, state |-> resolved.state,
     roles |-> resolved.roles, found |-> found, calls |-> run.calls]

Router_serve_found(b, st, routes, user_id, text, resolved, found) ==
    Router_served(resolved, found,
                  Router_invoke(b, st, routes, found,
                                Kwargs(user_id, text, resolved.roles, resolved.state), <<>>))

Router_serve_resolved(b, st, routes, user_id, text, command, resolved) ==
    IF resolved.err # "none"
    THEN Aborted("resolve", resolved.err, st)
    ELSE Router_serve_found(b, st, routes, user_id, text, resolved,
             Router_find_command_routes(routes, 1, command, resolved.state, resolved.roles))

Router_serve_parsed(b, st, routes, user_id, text, token) ==
    IF token.err # "none"
    THEN Aborted("parse", token.err, st)
    ELSE Router_serve_resolved(b, st, routes, user_id, text, Strip(token.value, {"/"}),
                               Router_resolve(b, st, user_id))

Router_serve_command_route(b, st, routes, user_id, text) ==
    Router_serve_parsed(b, st, routes, user_id, text, SplitFirst(text))

-----------------------------------------------------------------------------
(* Message routes. A pattern is an alternation of literal texts, "hi|hello"  *)
(* being <<hi, hello>>; the two ways of applying one are kept apart.        *)

MessageRoute(message, callback, states, route_roles) ==
    [message |-> message, callback |-> callback, states |-> states, roles |-> route_roles]

\* re.search(pattern, text): some alternative occurs somewhere in the text
re_search(pattern, text) ==
    \E i \in 1..Len(pattern) : \E k \in 0..(Len(text) - Len(pattern[i])) :
        SubSeq(text, k + 1, k + Len(pattern[i])) = pattern[i]

\* re.fullmatch(pattern, text): some alternative is the whole text
re_fullmatch(pattern, text) == \E i \in 1..Len(pattern) : pattern[i] = text

\* a trigger test that looks for the pattern anywhere in the text
Router_message_triggers_Search(route, message) == re_search(route.message, message)

\* re.fullmatch(message_route.message, message)
Router_message_triggers(route, message) == re_fullmatch(route.message, message)

RECURSIVE Router_find_message_routes(_, _, _, _, _)
Router_find_message_routes(routes, index, message, state, user_roles) ==
    IF index > Len(routes)
    THEN <<>>
    ELSE (IF Router_message_triggers(routes[index], message)
             /\ Route_is_accessible_with(routes[index], state, user_roles)
          THEN <<index>>
          ELSE <<>>)
         \o Router_find_message_routes(routes, index + 1, message, state, user_roles)

Router_serve_message_resolved(b, st, routes, user_id, text, resolved) ==
    IF resolved.err # "none"
    THEN Aborted("resolve", resolved.err, st)
    ELSE Router_serve_found(b, st, routes, user_id, text, resolved,
             Router_find_message_routes(routes, 1, text, resolved.state, resolved.roles))

Router_serve_message_route(b, st, routes, user_id, text) ==
    Router_serve_message_resolved(b, st, routes, user_id, text, Router_resolve(b, st, user_id))

-----------------------------------------------------------------------------
(* Document routes                                                         *)

DocumentRoute(file_names, mime_types, callback, states, route_roles) ==
    [file_names |-> file_names, mime_types |-> mime_types, callback |-> callback,
     states |-> states, roles |-> route_roles]

RECURSIVE Router_find_document_routes(_, _, _, _, _, _)
Router_find_document_routes(routes, index, file_name, mime_type, state, user_roles) ==
    IF index > Len(routes)
    THEN <<>>
    ELSE (IF routes[index].file_names # <<>> /\ file_name \notin Range(routes[index].file_names)
          THEN <<>>
          ELSE IF routes[index].mime_types # <<>>
                    /\ mime_type \notin Range(routes[index].mime_types)
               THEN <<>>
               ELSE IF ~Route_is_accessible_with(routes[index], state, user_roles)
                    THEN <<>>
                    ELSE <<index>>)
         \o Router_find_document_routes(routes, index + 1, file_name, mime_type,
                                        state, user_roles)

\* message = message.text; document = message.document: the name message
\* now holds the text of the event (None for a document), which has no
\* attribute document, so the handler raises before anything is looked up
Router_serve_document_route(b, st, routes, user_id, document) ==
    Aborted("event", "AttributeError", st)

-----------------------------------------------------------------------------
(* Spec: the bot. The application registers command routes, users send     *)
(* commands, and handlers of the application initialise users, set states  *)
(* and log users in.                                                       *)

UserIds == {1, 2}

States == {"free", "awaiting_password"}

Catalog == [user |-> "", admin |-> "secret"]

Texts == { <<"/">> \o start, <<"/">> \o help, <<"/">> \o help \o <<" ", "m", "e">> }

Routes ==
    { CommandRoute(help, "handler", <<>>, <<>>),
      CommandRoute(help, "failing_handler", <<>>, <<>>),
      CommandRoute(help, "handler", <<"awaiting_password">>, <<"user">>),
      CommandRoute(help, "handler", <<>>, <<"admin">>),
      CommandRoute(start, "handler", <<"free">>, <<"admin", "user">>) }

Handled(op, user_id, text, out) ==
    [op |-> op, user_id |-> user_id, text |-> text, failed |-> out.failed, err |-> out.err,
     state |-> out.state, roles |-> out.roles, found |-> out.found, calls |-> out.calls,
     routes |-> command_routes, pre |-> store, post |-> out.store,
     role |-> "", password |-> "", catalog |-> roles,
     value |-> "", answer |-> FALSE, document |-> NoDocument, kwargs |-> {}]

\* a call that is not a dispatch: only its outcome is recorded
Called(op, user_id, out) ==
    [op |-> op, user_id |-> user_id, text |-> <<>>,
     failed |-> IF out.err # "none" THEN "call" ELSE "none", err |-> out.err,
     state |-> "", roles |-> <<>>, found |-> <<>>, calls |-> <<>>, routes |-> command_routes,
     pre |-> store, post |-> out.store,
     role |-> "", password |-> "", catalog |-> roles,
     value |-> "", answer |-> FALSE, document |-> NoDocument, kwargs |-> {}]

\* a RoleAuth call: the role and the password it was given are recorded as well
Asked(op, role, user_id, password, out) ==
    [Called(op, user_id, out) EXCEPT !.role = role, !.password = password]

\* a lookup: the error it raised, or the state name and the answer it returned
Looked(op, user_id, got) ==
    [Called(op, user_id, Outcome(got.err, store, <<>>))
        EXCEPT !.value = got.value, !.answer = got.answer]

\* TelegramBot.__init__: the storage is built (the users collection may or may
\* not have been created yet) and the bootstrap route is registered
Init ==
    /\ backend \in {"local", "mongo"}
    /\ config = BotConfig
    /\ message_routes = <<>>
    /\ document_routes = <<>>
    /\ store \in {NoCollection, Written(<<>>)}
    /\ last = NoCall
    /\ roles = Catalog
    /\ command_routes = <<CommandRoute(start, "__init_user", <<>>, <<>>)>>
    /\ served = NotServed
    /\ probe = NoProbe
    /\ twin = NoTwin
    /\ threads = NoThreads

register_command_route ==
    \E route \in Routes :
        /\ Len(command_routes) < MaxRoutes
        /\ command_routes' = Append(command_routes, route)
        /\ UNCHANGED <<backend, config, message_routes, document_routes, store, last, roles, served, probe, twin, threads>>

\* Router.serve (a command message): the record of the dispatch, and the
\* collection it leaves
serve_command_route ==
    \E user_id \in UserIds, text \in Texts :
        /\ served' = Handled("serve_command_route", user_id, text,
               Router_serve_command_route(backend, store, command_routes, user_id, text))
        /\ store' = served'.post
        /\ UNCHANGED <<backend, config, message_routes, document_routes, last, roles, command_routes, probe, twin, threads>>

user_initialize ==
    \E user_id \in UserIds :
        /\ served' = Called("user_initialize", user_id,
               UserMetaStorage_user_initialize(backend, store, user_id,
                   [Roles |-> <<"user">>, State |-> "free", State_Params |-> <<>>]))
        /\ store' = served'.post
        /\ UNCHANGED <<backend, config, message_routes, document_routes, last, roles, command_routes, probe, twin, threads>>

set_state ==
    \E user_id \in UserIds, status \in States :
        /\ served' = [Called("set_state", user_id,
               StateManager_set_state(backend, store, config, user_id, status, <<>>))
                         EXCEPT !.value = status]
        /\ store' = served'.post
        /\ UNCHANGED <<backend, config, message_routes, document_routes, last, roles, command_routes, probe, twin, threads>>

login_as ==
    \E user_id \in UserIds, role \in {"admin", "moderator"}, password \in {"", "secret"} :
        /\ served' = Asked("login_as", role, user_id, password,
               RoleAuth_login_as(backend, store, roles, role, user_id, password))
        /\ store' = served'.post
        /\ UNCHANGED <<backend, config, message_routes, document_routes, last, roles, command_routes, probe, twin, threads>>

Next ==
    \/ register_command_route
    \/ serve_command_route
    \/ user_initialize
    \/ set_state
    \/ login_as

Spec == Init /\ [][Next]_vars

-----------------------------------------------------------------------------
(* SpecAccess: the two access checks applied to the same arguments         *)

AllowLists(S) == {<<>>} \cup {<<x>> : x \in S} \cup {p \in S \X S : p[1] # p[2]}

RoleNames == {"user", "admin"}

InitAccess ==
    /\ backend = "local"
    /\ config = BotConfig
    /\ message_routes = <<>>
    /\ document_routes = <<>>
    /\ store = NoCollection
    /\ last = NoCall
    /\ roles = Catalog
    /\ command_routes = <<>>
    /\ served = NotServed
    /\ probe \in [user_state : States, user_roles : AllowLists(RoleNames) \ {<<>>},
                  states : AllowLists(States), roles : AllowLists(RoleNames),
                  applied : {FALSE}, is_accessible_with : {FALSE}, has_access : {FALSE}]
    /\ twin = NoTwin
    /\ threads = NoThreads

check_access ==
    /\ ~probe.applied
    /\ probe' = [probe EXCEPT
          !.applied = TRUE,
          !.is_accessible_with =
              Route_is_accessible_with(CommandRoute(help, "handler", probe.states, probe.roles),
                                       probe.user_state, probe.user_roles),
          !.has_access =
              TelegramBot_has_access(probe.user_roles, probe.user_state, probe.states, probe.roles)]
    /\ UNCHANGED <<backend, config, message_routes, document_routes, store, last, roles, command_routes, served, twin, threads>>

NextAccess == check_access

SpecAccess == InitAccess /\ [][NextAccess]_vars

-----------------------------------------------------------------------------
(* SpecDispatches: two commands are dispatched at the same time. A         *)
(* dispatch is Router.__serve_command_route step by step: it looks up the  *)
(* state, looks up the roles, finds the routes and invokes their callbacks *)
(* one by one; the steps of the two dispatches interleave.                 *)

UserRecord(user_id, state, user_roles) ==
    [_id |-> user_id, State |-> state, Roles |-> user_roles, State_Params |-> <<>>]

UsersContents ==
    { Written(<<>>),
      Written(<<UserRecord(1, "free", <<"user">>)>>),
      Written(<<UserRecord(1, "free", <<"user">>),
                UserRecord(2, "awaiting_password", <<"user", "admin">>)>>) }

RouteTables ==
    { <<CommandRoute(start, "__init_user", <<>>, <<>>),
        CommandRoute(help, "ask_password", <<"free">>, <<>>),
        CommandRoute(help, "handler", <<>>, <<"admin">>)>>,
      <<CommandRoute(start, "__init_user", <<>>, <<>>),
        CommandRoute(help, "handler", <<"awaiting_password">>, <<"user">>),
        CommandRoute(help, "ask_password", <<>>, <<>>)>>,
      <<CommandRoute(help, "ask_password", <<>>, <<>>),
        CommandRoute(help, "handler", <<"free">>, <<>>),
        CommandRoute(help, "handler", <<"awaiting_password">>, <<>>)>>,
      <<CommandRoute(help, "login_as_admin", <<>>, <<>>),
        CommandRoute(help, "handler", <<>>, <<"admin">>),
        CommandRoute(help, "handler", <<>>, <<"user">>)>> }

Commands == { <<"/">> \o start, <<"/">> \o help }

\* (mutant) the state looked up is kept on the router, where the dispatch that
\* looked up last has left its own
Router_user_state_OnRouter(t) == served.state

\* a dispatch that looks the state up again whenever it needs it
Router_user_state_Reread(t) ==
    IF StateManager_get_state(backend, store, threads[t].user_id).err = "none"
    THEN StateManager_get_state(backend, store, threads[t].user_id).value
    ELSE threads[t].state

\* user_state and user_roles, local variables of the call
Router_user_state(t) == threads[t].state

Router_user_roles(t) == threads[t].roles

InitDispatches ==
    /\ backend \in {"local", "mongo"}
    /\ config = BotConfig
    /\ message_routes = <<>>
    /\ document_routes = <<>>
    /\ store \in UsersContents
    /\ last = NoCall
    /\ roles = Catalog
    /\ command_routes \in RouteTables
    /\ served = NotServed
    /\ probe = NoProbe
    /\ twin = NoTwin
    /\ \E events \in [Threads -> UserIds \X Commands] :
          threads = [t \in Threads |->
                        [pc |-> "get_state", user_id |-> events[t][1], message |-> events[t][2],
                         state |-> "", roles |-> <<>>, found |-> <<>>, rest |-> <<>>,
                         calls |-> <<>>, err |-> "none", searched |-> FALSE,
                         registered |-> command_routes]]

\* the lookup that answered last, as history
Resolved(th) == [served EXCEPT !.op = "resolve", !.user_id = th.user_id,
                               !.state = th.state, !.roles = th.roles]

\* user_state = self.__state_manager.get_state(user_id)
AfterGetState(th, user_state) ==
    IF user_state.err = "none"
    THEN [th EXCEPT !.pc = "get_user_roles", !.state = user_state.value]
    ELSE IF user_state.err = "StateError"
         THEN [th EXCEPT !.pc = "find", !.state = "free", !.roles = <<"user">>]
         ELSE [th EXCEPT !.pc = "raised", !.err = user_state.err]

dispatch_get_state(t) ==
    /\ threads[t].pc = "get_state"
    /\ threads' = [threads EXCEPT ![t] =
          AfterGetState(threads[t], StateManager_get_state(backend, store, threads[t].user_id))]
    /\ served' = Resolved(threads'[t])
    /\ UNCHANGED <<backend, config, message_routes, document_routes, store, last, roles, command_routes, probe, twin>>

\* user_roles = self.__role_auth.get_user_roles(user_id)
AfterGetUserRoles(th, user_roles) ==
    IF user_roles.err = "none"
    THEN [th EXCEPT !.pc = "find", !.roles = user_roles.value]
    ELSE IF user_roles.err = "RoleError"
         THEN [th EXCEPT !.pc = "find", !.state = "free", !.roles = <<"user">>]
         ELSE [th EXCEPT !.pc = "raised", !.err = user_roles.err]

dispatch_get_user_roles(t) ==
    /\ threads[t].pc = "get_user_roles"
    /\ threads' = [threads EXCEPT ![t] =
          AfterGetUserRoles(threads[t],
                            RoleAuth_get_user_roles(backend, store, threads[t].user_id))]
    /\ served' = Resolved(threads'[t])
    /\ UNCHANGED <<backend, config, message_routes, document_routes, store, last, roles, command_routes, probe, twin>>

\* found_routes = self.__find_command_routes(command, user_state, user_roles)
Found(th, found) ==
    [th EXCEPT !.pc = "invoke", !.found = found, !.rest = found, !.searched = TRUE]

dispatch_find(t) ==
    /\ threads[t].pc = "find"
    /\ threads' = [threads EXCEPT ![t] =
          Found(threads[t],
                Router_find_command_routes(command_routes, 1,
                    Strip(SplitFirst(threads[t].message).value, {"/"}),
                    Router_user_state(t), Router_user_roles(t)))]
    /\ UNCHANGED <<backend, config, message_routes, document_routes, store, last, roles, command_routes, served, probe, twin>>

\* one turn of: for route in found_routes: route.callback(...)
Invoked(th, kwargs, out) ==
    [th EXCEPT !.pc = IF out.err # "none" THEN "raised" ELSE "invoke",
               !.err = out.err,
               !.rest = Tail(th.rest),
               !.calls = Append(th.calls, [route |-> Head(th.rest), kwargs |-> kwargs,
                                           store |-> out.store])]

InvokeWith(t, kwargs) ==
    Invoked(threads[t], kwargs,
            Callback(backend, store, command_routes[Head(threads[t].rest)].callback, kwargs))

dispatch_invoke(t) ==
    /\ threads[t].pc = "invoke"
    /\ threads[t].rest # <<>>
    /\ threads' = [threads EXCEPT ![t] =
          InvokeWith(t, Kwargs(threads[t].user_id, threads[t].message,
                               Router_user_roles(t), Router_user_state(t)))]
    /\ store' = threads'[t].calls[Len(threads'[t].calls)].store
    /\ UNCHANGED <<backend, config, message_routes, document_routes, last, roles, command_routes, served, probe, twin>>

\* the loop has ended and the call returns
dispatch_return(t) ==
    /\ threads[t].pc = "invoke"
    /\ threads[t].rest = <<>>
    /\ threads' = [threads EXCEPT ![t].pc = "done"]
    /\ UNCHANGED <<backend, config, message_routes, document_routes, store, last, roles, command_routes, served, probe, twin>>

NextDispatches ==
    \E t \in Threads :
        \/ dispatch_get_state(t)
        \/ dispatch_get_user_roles(t)
        \/ dispatch_find(t)
        \/ dispatch_invoke(t)
        \/ dispatch_return(t)

SpecDispatches == InitDispatches /\ [][NextDispatches]_vars

-----------------------------------------------------------------------------
(* SpecRoles: the RoleAuth calls that change who holds which role, and the *)
(* calls that change the catalog of roles, on a collection of users.       *)

\* the roles a call may name: two of the catalog and one that is added later
AskedRoles == {"user", "admin", "moderator"}

Passwords == {"", "secret"}

InitRoles ==
    /\ backend \in {"local", "mongo"}
    /\ config = BotConfig
    /\ message_routes = <<>>
    /\ document_routes = <<>>
    /\ store \in UsersContents \cup {NoCollection}
    /\ last = NoCall
    /\ roles = Catalog
    /\ command_routes = <<>>
    /\ served = NotServed
    /\ probe = NoProbe
    /\ twin = NoTwin
    /\ threads = NoThreads

logout_as ==
    \E user_id \in UserIds, role \in AskedRoles :
        /\ served' = Asked("logout_as", role, user_id, "",
               RoleAuth_logout_as(backend, store, roles, role, user_id))
        /\ store' = served'.post
        /\ UNCHANGED <<backend, config, message_routes, document_routes, last, roles, command_routes, probe, twin, threads>>

add_role ==
    \E role \in AskedRoles, password \in Passwords :
        /\ served' = Asked("add_role", role, 0, password, Outcome("none", store, <<>>))
        /\ roles' = RoleAuth_add_role(roles, role, password)
        /\ UNCHANGED <<backend, config, message_routes, document_routes, store, last, command_routes, probe, twin, threads>>

remove_role ==
    \E role \in AskedRoles, password \in Passwords :
        /\ served' = Asked("remove_role", role, 0, password,
               Outcome(RoleAuth_remove_role(roles, role, password).err, store, <<>>))
        /\ roles' = RoleAuth_remove_role(roles, role, password).roles
        /\ UNCHANGED <<backend, config, message_routes, document_routes, store, last, command_routes, probe, twin, threads>>

NextRoles ==
    \/ login_as
    \/ logout_as
    \/ add_role
    \/ remove_role

SpecRoles == InitRoles /\ [][NextRoles]_vars

-----------------------------------------------------------------------------
(* SpecStates: a StateManager built with one of several configurations, on *)
(* a users collection; states are read, tested and set.                    *)

FreeNames == {"free", "idle"}

Configs == [with_params : BOOLEAN, free_status : FreeNames]

\* users in the configured free state and in another one
StatesContents ==
    UsersContents \cup
    { Written(<<UserRecord(1, "idle", <<"user">>),
                UserRecord(2, "free", <<"user">>)>>),
      NoCollection }

InitStates ==
    /\ backend \in {"local", "mongo"}
    /\ config \in Configs
    /\ message_routes = <<>>
    /\ document_routes = <<>>
    /\ store \in StatesContents
    /\ last = NoCall
    /\ roles = Catalog
    /\ command_routes = <<>>
    /\ served = NotServed
    /\ probe = NoProbe
    /\ twin = NoTwin
    /\ threads = NoThreads

get_state ==
    \E user_id \in UserIds :
        /\ served' = Looked("get_state", user_id,
               [err |-> StateManager_get_state(backend, store, user_id).err,
                value |-> StateManager_get_state(backend, store, user_id).value,
                answer |-> FALSE])
        /\ UNCHANGED <<backend, config, message_routes, document_routes, store, last, roles, command_routes, probe, twin, threads>>

get_state_params ==
    \E user_id \in UserIds :
        /\ served' = Looked("get_state_params", user_id,
               [err |-> StateManager_get_state_params(backend, store, config, user_id).err,
                value |-> "", answer |-> FALSE])
        /\ UNCHANGED <<backend, config, message_routes, document_routes, store, last, roles, command_routes, probe, twin, threads>>

is_free ==
    \E user_id \in UserIds :
        /\ served' = Looked("is_free", user_id,
               StateManager_is_free(backend, store, config, user_id))
        /\ UNCHANGED <<backend, config, message_routes, document_routes, store, last, roles, command_routes, probe, twin, threads>>

set_free ==
    \E user_id \in UserIds :
        /\ served' = Called("set_free", user_id,
               StateManager_set_free(backend, store, config, user_id))
        /\ store' = served'.post
        /\ UNCHANGED <<backend, config, message_routes, document_routes, last, roles, command_routes, probe, twin, threads>>

NextStates ==
    \/ get_state
    \/ get_state_params
    \/ is_free
    \/ set_state
    \/ set_free

SpecStates == InitStates /\ [][NextStates]_vars

-----------------------------------------------------------------------------
(* SpecUsers: the calls that write the users collection, in every order:   *)
(* UserMetaStorage, StateManager and RoleAuth on the same storage.         *)

InitUsers ==
    /\ backend \in {"local", "mongo"}
    /\ config = BotConfig
    /\ message_routes = <<>>
    /\ document_routes = <<>>
    /\ store \in UsersContents \cup {NoCollection}
    /\ last = NoCall
    /\ roles = Catalog
    /\ command_routes = <<>>
    /\ served = NotServed
    /\ probe = NoProbe
    /\ twin = NoTwin
    /\ threads = NoThreads

user_update ==
    \E user_id \in UserIds :
        /\ served' = Called("user_update", user_id,
               UserMetaStorage_user_update(backend, store, user_id,
                                           "username", "first_name", "last_name"))
        /\ store' = served'.post
        /\ UNCHANGED <<backend, config, message_routes, document_routes, last, roles, command_routes, probe, twin, threads>>

NextUsers ==
    \/ user_initialize
    \/ user_update
    \/ set_state
    \/ set_free
    \/ login_as
    \/ logout_as

SpecUsers == InitUsers /\ [][NextUsers]_vars

-----------------------------------------------------------------------------
(* SpecBaseline: a Router built on a StateManager with one of several      *)
(* configurations; commands are dispatched while users are set free.       *)

InitBaseline ==
    /\ backend \in {"local", "mongo"}
    /\ config \in Configs
    /\ message_routes = <<>>
    /\ document_routes = <<>>
    /\ store \in UsersContents \cup {NoCollection}
    /\ last = NoCall
    /\ roles = Catalog
    /\ command_routes \in RouteTables
    /\ served = NotServed
    /\ probe = NoProbe
    /\ twin = NoTwin
    /\ threads = NoThreads

NextBaseline ==
    \/ serve_command_route
    \/ set_free
    \/ is_free

SpecBaseline == InitBaseline /\ [][NextBaseline]_vars

-----------------------------------------------------------------------------
(* SpecTokens: command routes are registered and command messages with     *)
(* slashes and arguments in several places are dispatched.                 *)

\* "/help", "/help me", "/help/", "//help", "/start"
TokenTexts ==
    { <<"/">> \o help,
      <<"/">> \o help \o <<" ", "m", "e">>,
      <<"/">> \o help \o <<"/">>,
      <<"/", "/">> \o help,
      <<"/">> \o start }

InitTokens ==
    /\ backend \in {"local", "mongo"}
    /\ config = BotConfig
    /\ message_routes = <<>>
    /\ document_routes = <<>>
    /\ store = Written(<<>>)
    /\ last = NoCall
    /\ roles = Catalog
    /\ command_routes = <<>>
    /\ served = NotServed
    /\ probe = NoProbe
    /\ twin = NoTwin
    /\ threads = NoThreads

\* Router.serve for a command message, as serve_command_route above
serve_command ==
    \E user_id \in UserIds, text \in TokenTexts :
        /\ served' = Handled("serve_command_route", user_id, text,
               Router_serve_command_route(backend, store, command_routes, user_id, text))
        /\ store' = served'.post
        /\ UNCHANGED <<backend, config, message_routes, document_routes, last, roles, command_routes, probe, twin, threads>>

NextTokens ==
    \/ register_command_route
    \/ serve_command

SpecTokens == InitTokens /\ [][NextTokens]_vars

-----------------------------------------------------------------------------
(* SpecMessages: message routes are registered and text messages are       *)
(* dispatched.                                                             *)

hi == <<"h", "i">>

hello == <<"h", "e", "l", "l", "o">>

hi_there == hi \o <<" ", "t", "h", "e", "r", "e">>

\* "hi", "hello", "hi there", "oh hi"
MessageTexts == { hi, hello, hi_there, <<"o", "h", " ">> \o hi }

\* routes for "hi|hello", "hi there" and "hi", the last for admins only
MessageRoutes ==
    { MessageRoute(<<hi, hello>>, "handler", <<>>, <<>>),
      MessageRoute(<<hi_there>>, "ask_password", <<>>, <<>>),
      MessageRoute(<<hi>>, "handler", <<>>, <<"admin">>) }

InitMessages ==
    /\ backend \in {"local", "mongo"}
    /\ config = BotConfig
    /\ message_routes = <<>>
    /\ document_routes = <<>>
    /\ store \in UsersContents
    /\ last = NoCall
    /\ roles = Catalog
    /\ command_routes = <<>>
    /\ served = NotServed
    /\ probe = NoProbe
    /\ twin = NoTwin
    /\ threads = NoThreads

register_message_route ==
    \E route \in MessageRoutes :
        /\ Len(message_routes) < MaxRoutes
        /\ message_routes' = Append(message_routes, route)
        /\ UNCHANGED <<backend, config, document_routes, store, last, roles, command_routes,
                       served, probe, twin, threads>>

serve_message_route ==
    \E user_id \in UserIds, text \in MessageTexts :
        /\ served' = [Handled("serve_message_route", user_id, text,
                         Router_serve_message_route(backend, store, message_routes,
                                                    user_id, text))
                         EXCEPT !.routes = message_routes]
        /\ store' = served'.post
        /\ UNCHANGED <<backend, config, message_routes, document_routes, last, roles,
                       command_routes, probe, twin, threads>>

NextMessages ==
    \/ register_message_route
    \/ serve_message_route

SpecMessages == InitMessages /\ [][NextMessages]_vars

-----------------------------------------------------------------------------
(* SpecDocuments: document routes are registered, documents are sent, and  *)
(* the route search is applied on its own.                                 *)

FileNames == {"a.txt", "b.pdf"}

MimeTypes == {"text/plain", "application/pdf"}

Documents == [file_name : FileNames, mime_type : MimeTypes]

DocumentRoutes ==
    { DocumentRoute(<<>>, <<>>, "handler", <<>>, <<>>),
      DocumentRoute(<<"a.txt">>, <<>>, "handler", <<>>, <<>>),
      DocumentRoute(<<>>, <<"application/pdf">>, "handler", <<"free">>, <<>>),
      DocumentRoute(<<"a.txt", "b.pdf">>, <<"text/plain">>, "handler", <<>>, <<"admin">>) }

InitDocuments ==
    /\ backend \in {"local", "mongo"}
    /\ config = BotConfig
    /\ message_routes = <<>>
    /\ document_routes = <<>>
    /\ store \in UsersContents
    /\ last = NoCall
    /\ roles = Catalog
    /\ command_routes = <<>>
    /\ served = NotServed
    /\ probe = NoProbe
    /\ twin = NoTwin
    /\ threads = NoThreads

register_document_route ==
    \E route \in DocumentRoutes :
        /\ Len(document_routes) < MaxRoutes
        /\ document_routes' = Append(document_routes, route)
        /\ UNCHANGED <<backend, config, message_routes, store, last, roles, command_routes,
                       served, probe, twin, threads>>

serve_document_route ==
    \E user_id \in UserIds, document \in Documents :
        /\ served' = [Handled("serve_document_route", user_id, <<>>,
                         Router_serve_document_route(backend, store, document_routes,
                                                     user_id, document))
                         EXCEPT !.routes = document_routes, !.document = document]
        /\ store' = served'.post
        /\ UNCHANGED <<backend, config, message_routes, document_routes, last, roles,
                       command_routes, probe, twin, threads>>

\* Router.__find_document_routes applied to a document, a state and roles
find_document_routes ==
    \E document \in Documents, state \in States, user_roles \in {<<"user">>, <<"user", "admin">>} :
        /\ served' = [NotServed EXCEPT
                         !.op = "find_document_routes", !.document = document,
                         !.state = state, !.roles = user_roles, !.routes = document_routes,
                         !.pre = store, !.post = store,
                         !.found = Router_find_document_routes(document_routes, 1,
                                       document.file_name, document.mime_type,
                                       state, user_roles)]
        /\ UNCHANGED <<backend, config, message_routes, document_routes, store, last, roles,
                       command_routes, probe, twin, threads>>

NextDocuments ==
    \/ register_document_route
    \/ serve_document_route
    \/ find_document_routes

SpecDocuments == InitDocuments /\ [][NextDocuments]_vars

-----------------------------------------------------------------------------
(* SpecConstruction: TelegramBot and TelegramUtilsService are constructed  *)
(* with every set of storage keyword arguments.                            *)

ConnectionKeys == {"db_address", "db_port", "db_username", "db_password", "db_name"}

StorageKeys == ConnectionKeys \cup {"storage_folder"}

\* if the connection keys are all there: MongoDBStorage; elif 'storage_folder'
\* is there: LocalJSONStorage; else raise InitException
TelegramBot_init_storage(kwargs) ==
    IF ConnectionKeys \subseteq kwargs
    THEN [err |-> "none", backend |-> "mongo"]
    ELSE IF "storage_folder" \in kwargs
         THEN [err |-> "none", backend |-> "local"]
         ELSE [err |-> "InitException", backend |-> "none"]

\* the same selection, written out again in TelegramUtilsService.__init__
TelegramUtilsService_init_storage(kwargs) ==
    IF ConnectionKeys \subseteq kwargs
    THEN [err |-> "none", backend |-> "mongo"]
    ELSE IF "storage_folder" \in kwargs
         THEN [err |-> "none", backend |-> "local"]
         ELSE [err |-> "InitException", backend |-> "none"]

InitConstruction ==
    /\ backend = "none"
    /\ config = BotConfig
    /\ message_routes = <<>>
    /\ document_routes = <<>>
    /\ store = NoCollection
    /\ last = NoCall
    /\ roles = Catalog
    /\ command_routes = <<>>
    /\ served = NotServed
    /\ probe = NoProbe
    /\ twin = NoTwin
    /\ threads = NoThreads

TelegramBot_init ==
    \E kwargs \in SUBSET StorageKeys :
        /\ served' = [NotServed EXCEPT !.op = "TelegramBot", !.kwargs = kwargs,
                                       !.err = TelegramBot_init_storage(kwargs).err]
        /\ backend' = TelegramBot_init_storage(kwargs).backend
        /\ UNCHANGED <<config, message_routes, document_routes, store, last, roles,
                       command_routes, probe, twin, threads>>

TelegramUtilsService_init ==
    \E kwargs \in SUBSET StorageKeys :
        /\ served' = [NotServed EXCEPT !.op = "TelegramUtilsService", !.kwargs = kwargs,
                                       !.err = TelegramUtilsService_init_storage(kwargs).err]
        /\ backend' = TelegramUtilsService_init_storage(kwargs).backend
        /\ UNCHANGED <<config, message_routes, document_routes, store, last, roles,
                       command_routes, probe, twin, threads>>

NextConstruction ==
    \/ TelegramBot_init
    \/ TelegramUtilsService_init

SpecConstruction == InitConstruction /\ [][NextConstruction]_vars

-----------------------------------------------------------------------------
(* SpecCatalogs: a bot built with one of several role catalogs; commands   *)
(* are dispatched while roles are granted, given up and removed.           *)

\* TelegramBot(roles=...): the application's dict is stored as it is given;
\* "the default role 'user' may be not mentioned"
Catalogs == { Catalog, [admin |-> "secret"] }

InitCatalogs ==
    /\ backend \in {"local", "mongo"}
    /\ config = BotConfig
    /\ message_routes = <<>>
    /\ document_routes = <<>>
    /\ store \in {NoCollection, Written(<<>>)}
    /\ last = NoCall
    /\ roles \in Catalogs
    /\ command_routes = <<CommandRoute(start, "__init_user", <<>>, <<>>)>>
    /\ served = NotServed
    /\ probe = NoProbe
    /\ twin = NoTwin
    /\ threads = NoThreads

NextCatalogs ==
    \/ serve_command_route
    \/ login_as
    \/ logout_as
    \/ remove_role

SpecCatalogs == InitCatalogs /\ [][NextCatalogs]_vars

-----------------------------------------------------------------------------
(* Properties of the storage operations (checked under SpecStorage)        *)

\* f is a sub-map of d: every key of f is in d with an equal value
Superset(f, d) == \A key \in DOMAIN f : key \in DOMAIN d /\ d[key] = f[key]

Occurs(d, s) == \E j \in 1..Len(s) : s[j] = d

\* the collection can be read: always for MongoDB, for the local backends
\* when the collection's file is there
Readable(b, st) == b = "mongo" \/ st.file = "ok"

FirstHit(f, docs) ==
    CHOOSE i \in 1..Len(docs) : Superset(f, docs[i]) /\ \A j \in 1..(i - 1) : ~Superset(f, docs[j])

\* C6: get(collection, filter=f) returns a stored document d if and only if
\* every key of f is present in d with an equal value, on every backend, and
\* an empty filter returns every document.
C6_GetSupersetMatch ==
    (last.op = "get_data" /\ last.columns = {} /\ last.count = 0 /\ Readable(backend, last.pre)) =>
        /\ last.err = "none"
        /\ \A i \in 1..Len(last.pre.docs) :
              Occurs(last.pre.docs[i], last.ret) <=> Superset(last.doc, last.pre.docs[i])
        /\ \A j \in 1..Len(last.ret) : Occurs(last.ret[j], last.pre.docs)
        /\ (DOMAIN last.doc = {}) => last.ret = last.pre.docs

\* a get with a two-column filter that returned one document and left out another
C6_Witness ==
    /\ last.op = "get_data" /\ last.columns = {} /\ last.count = 0
    /\ Cardinality(DOMAIN last.doc) = 2
    /\ Len(last.ret) = 1
    /\ Len(last.pre.docs) = 2

\* C7: removeOneByFilter removes exactly the first document in insertion order
\* that is a superset-match of the filter and keeps the others in their order;
\* with no match the (readable) collection is left unchanged and no error is raised.
C7_RemoveOneFirstMatch ==
    (last.op = "remove_one_doc_by_dict" /\ Readable(backend, last.pre)) =>
        /\ last.err = "none"
        /\ IF \E i \in 1..Len(last.pre.docs) : Superset(last.doc, last.pre.docs[i])
           THEN LET first == FirstHit(last.doc, last.pre.docs)
                IN  /\ Len(store.docs) = Len(last.pre.docs) - 1
                    /\ \A j \in 1..Len(store.docs) :
                          store.docs[j] = IF j < first THEN last.pre.docs[j] ELSE last.pre.docs[j + 1]
           ELSE store = last.pre

\* two documents matched the filter and only the first one was removed
C7_Witness ==
    /\ last.op = "remove_one_doc_by_dict"
    /\ Len(last.pre.docs) = 2
    /\ \A i \in 1..2 : Superset(last.doc, last.pre.docs[i])
    /\ last.pre.docs[1] # last.pre.docs[2]
    /\ store.docs = <<last.pre.docs[2]>>

\* C8: removeManyByFilter removes every superset-match of the filter, equal
\* documents included, and keeps every other document in its relative order.
C8_RemoveManyAllMatches ==
    (last.op = "remove_many_docs_by_dict" /\ Readable(backend, last.pre)) =>
        /\ last.err = "none"
        /\ store.docs = SelectSeq(last.pre.docs, LAMBDA d : ~Superset(last.doc, d))

\* two equal documents matched the filter and both were removed
C8_Witness ==
    /\ last.op = "remove_many_docs_by_dict"
    /\ Len(last.pre.docs) = 2
    /\ last.pre.docs[1] = last.pre.docs[2]
    /\ Superset(last.doc, last.pre.docs[1])
    /\ store.docs = <<>>

HoldsId(d, id_column, id) == id_column \in DOMAIN d /\ d[id_column] = id

Patched(d, patch) ==
    [key \in (DOMAIN d) \cup (DOMAIN patch) |-> IF key \in DOMAIN patch THEN patch[key] ELSE d[key]]

\* C9: on every local backend implementation, updateOneById / updateManyById
\* merge the patch into the document(s) whose idColumn equals idValue (the
\* first one / all of them) and change nothing else.
C9_UpdateMergesPatch ==
    (/\ last.op \in {"update_one_doc", "update_many_docs"}
     /\ backend \in {"local", "legacy_local"}
     /\ last.pre.file = "ok") =>
        LET pre == last.pre.docs
            held == {i \in 1..Len(pre) : HoldsId(pre[i], last.id_column, last.id)}
            target == IF last.op = "update_many_docs"
                      THEN held
                      ELSE {i \in held : \A j \in held : i <= j}
        IN  /\ last.err = "none"
            /\ Len(store.docs) = Len(pre)
            /\ \A i \in 1..Len(pre) :
                  store.docs[i] = IF i \in target THEN Patched(pre[i], last.doc) ELSE pre[i]

\* the same statement for the LocalJSONStorage of advancedbot only
C9_UpdateMergesPatch_Current ==
    backend = "local" => C9_UpdateMergesPatch

\* C10: with an idValue that no stored document holds, the local backend
\* leaves the (readable) collection unchanged and raises no error, while the
\* remote backend creates one new document: idColumn = idValue plus the patch
\* keys (and the "_id" the database assigns when idColumn is another column).
C10_UpdateMissingId ==
    (/\ last.op \in {"update_one_doc", "update_many_docs"}
     /\ Readable(backend, last.pre)
     /\ \A i \in 1..Len(last.pre.docs) : ~HoldsId(last.pre.docs[i], last.id_column, last.id)) =>
        /\ last.err = "none"
        /\ backend # "mongo" => store = last.pre
        /\ backend = "mongo" =>
              /\ Len(store.docs) = Len(last.pre.docs) + 1
              /\ SubSeq(store.docs, 1, Len(last.pre.docs)) = last.pre.docs
              /\ LET new == store.docs[Len(store.docs)]
                 IN  /\ DOMAIN new = {last.id_column, "_id"} \cup DOMAIN last.doc
                     /\ new[last.id_column] = last.id
                     /\ \A key \in DOMAIN last.doc : new[key] = last.doc[key]

\* the remote backend upserted into a collection that held another document
C10_Witness ==
    /\ last.op = "update_one_doc"
    /\ backend = "mongo"
    /\ Len(last.pre.docs) = 1
    /\ ~HoldsId(last.pre.docs[1], last.id_column, last.id)
    /\ Len(store.docs) = 2

-----------------------------------------------------------------------------
(* Properties of access checking (SpecAccess) and of dispatch (Spec)       *)

\* the access predicate of a route: its state allow-list is empty or holds the
\* user's state, and its role allow-list is empty or shares a role with the user
Admits(states, route_roles, user_state, user_roles) ==
    /\ states = <<>> \/ user_state \in Range(states)
    /\ route_roles = <<>> \/ Range(route_roles) \cap Range(user_roles) # {}

\* C1: a route is open to an event exactly when its state allow-list is empty
\* or holds the resolved state and its role allow-list is empty or shares a
\* role with the resolved roles, for Route.is_accessible_with and for
\* TelegramBot.__has_access alike.
C1_AccessChecksFollowPredicate ==
    probe.applied =>
        /\ probe.is_accessible_with =
              Admits(probe.states, probe.roles, probe.user_state, probe.user_roles)
        /\ probe.has_access =
              Admits(probe.states, probe.roles, probe.user_state, probe.user_roles)

\* the same statement for Route.is_accessible_with alone
C1_RouteFollowsPredicate ==
    probe.applied =>
        probe.is_accessible_with =
            Admits(probe.states, probe.roles, probe.user_state, probe.user_roles)

Dispatched == served.op = "serve_command_route"

NoRecord(st, user_id) == \A i \in 1..Len(st.docs) : ~HoldsId(st.docs[i], "_id", user_id)

\* C2: when the sender has no stored record, the lookups of dispatch do not
\* abort it: state "free" and roles {"user"} are substituted and no lookup
\* failure reaches the caller, on either backend, whether or not the users
\* collection exists.
C2_LookupFailureFallsBack ==
    (Dispatched /\ NoRecord(served.pre, served.user_id)) =>
        /\ served.failed # "resolve"
        /\ served.state = "free"
        /\ served.roles = <<"user">>

\* the same statement where the users collection can be read
C2_FallsBackWhenReadable ==
    (Dispatched /\ NoRecord(served.pre, served.user_id) /\ Readable(backend, served.pre)) =>
        /\ served.failed # "resolve"
        /\ served.state = "free"
        /\ served.roles = <<"user">>

\* C3: "/start" from a user without a record resolves state "free" and roles
\* {"user"}, invokes the bootstrap route, and leaves a record for the user
\* with roles ["user"] and state "free". (Stated where the users collection
\* can be read, so that the lookups themselves succeed.)
C3_StartCreatesRecord ==
    (/\ Dispatched
     /\ served.text = <<"/">> \o start
     /\ NoRecord(served.pre, served.user_id)
     /\ Readable(backend, served.pre)) =>
        /\ served.state = "free"
        /\ served.roles = <<"user">>
        /\ served.calls # <<>> /\ served.calls[1] = 1
        /\ \E i \in 1..Len(store.docs) :
              /\ HoldsId(store.docs[i], "_id", served.user_id)
              /\ "Roles" \in DOMAIN store.docs[i] /\ store.docs[i]["Roles"] = <<"user">>
              /\ "State" \in DOMAIN store.docs[i] /\ store.docs[i]["State"] = "free"

\* C4: when the callback of a matched route raises, the callbacks of the
\* matched routes registered after it are still invoked, and the callback that
\* raised is not invoked again: every matched route is invoked once.
C4_RaisingCallbackDoesNotStopLater ==
    (Dispatched /\ served.failed = "callback") => served.calls = served.found

\* the command an event carries: its first word without the slashes around it
CommandOf(text) == Strip(UpToWhitespace(LStrip(text, Whitespace)), {"/"})

Survives(route, text, user_state, user_roles) ==
    /\ route.command = CommandOf(text)
    /\ Admits(route.states, route.roles, user_state, user_roles)

Times(x, s) == Cardinality({j \in 1..Len(s) : s[j] = x})

\* callbacks ran in registration order, once for each surviving route
InOrderOnce ==
    /\ \A i \in 1..Len(served.routes) :
          Times(i, served.calls) =
              IF Survives(served.routes[i], served.text, served.state, served.roles) THEN 1 ELSE 0
    /\ \A j \in 1..Len(served.calls) : served.calls[j] \in 1..Len(served.routes)
    /\ \A j, k \in 1..Len(served.calls) : j < k => served.calls[j] < served.calls[k]

\* C5: for one event, the callbacks of the routes that survive trigger, state
\* and role filtering are invoked in registration order, each exactly once,
\* routes with identical triggers included.
C5_RegistrationOrderOnce ==
    (Dispatched /\ served.failed # "resolve") => InOrderOnce

\* the same statement for the events none of whose callbacks raises
C5_OrderOnceWhenNoCallbackRaises ==
    (Dispatched /\ served.failed = "none") => InOrderOnce

\* two routes with the same trigger survived and ran, in registration order
C5_DuplicatesRan ==
    /\ Dispatched /\ served.failed = "none"
    /\ Len(served.calls) = 2
    /\ served.routes[served.calls[1]].command = served.routes[served.calls[2]].command

-----------------------------------------------------------------------------
(* Properties of the two backends side by side (SpecTwin)                  *)

\* C11: after any sequence of Storage calls made on both backends from the
\* same initial contents, every get returns the same documents on both and
\* every call raises StorageError on both or on neither.
C11_BackendsAgree ==
    /\ twin.local_err = twin.mongo_err
    /\ twin.op \in {"get_data", "get_data_by_column"} => twin.local_ret = twin.mongo_ret

\* the same statement for sequences of plain calls: the documents stored carry
\* a new "_id" of their own, updates address stored documents, and
\* get_data_by_column is called without a count
C11_BackendsAgreeOnPlainCalls ==
    twin.plain =>
        /\ twin.local_err = twin.mongo_err
        /\ twin.local = twin.mongo
        /\ twin.op \in {"get_data", "get_data_by_column"} => twin.local_ret = twin.mongo_ret

\* a get that returned documents after a plain insert and a plain update
C11_PlainWitness ==
    /\ twin.plain
    /\ twin.op = "get_data"
    /\ Len(twin.local_ret) = 2
    /\ \E i \in 1..2 : "v" \in DOMAIN twin.local.docs[i]

-----------------------------------------------------------------------------
(* Round trip of a document through the storage (SpecStorage)              *)

\* C12: once insert_one_doc(collection, doc) has returned, get_data(collection)
\* without filter and columns returns the documents the collection held
\* before, in their order, followed by a document equal to doc field for field.
C12_InsertThenGet ==
    (last.op = "insert_one_doc" /\ last.err = "none") =>
        LET got == Storage_get_data(backend, store, {}, EmptyDoc, 0)
        IN  /\ got.err = "none"
            /\ got.ret = Append(last.pre.docs, last.held)

\* a document equal to a stored one was inserted after it
C12_Witness ==
    /\ last.op = "insert_one_doc" /\ last.err = "none"
    /\ Len(last.pre.docs) = 1
    /\ last.pre.docs[1] = last.doc
    /\ Len(store.docs) = 2

\* what get_data returns for the filter {column: value} of the last call
GetForColumn ==
    Storage_get_data(backend, last.pre, last.columns,
                     [key \in {last.id_column} |-> last.id], last.count)

\* C13: get_data_by_column(collection, column, value, columns, limit) returns
\* exactly what get_data(collection, columns, {column: value}, limit) returns,
\* on every backend and for every limit: at most limit documents when
\* limit > 0, all matches when limit = 0.
C13_GetByColumnIsGet ==
    last.op = "get_data_by_column" =>
        /\ last.err = GetForColumn.err
        /\ last.ret = GetForColumn.ret
        /\ last.count > 0 => Len(last.ret) <= last.count

\* the same statement for the local backends
C13_LocalGetByColumnIsGet ==
    (last.op = "get_data_by_column" /\ backend # "mongo") =>
        /\ last.err = GetForColumn.err
        /\ last.ret = GetForColumn.ret
        /\ last.count > 0 => Len(last.ret) <= last.count

\* the same statement for MongoDB and calls without a limit
C13_MongoGetByColumnWithoutLimit ==
    (last.op = "get_data_by_column" /\ backend = "mongo" /\ last.count = 0) =>
        /\ last.err = GetForColumn.err
        /\ last.ret = GetForColumn.ret

\* C14: on the local backend, a get against a collection whose file does not
\* exist or cannot be decoded fails with StorageError; no list is returned.
C14_LocalGetFailsWithoutFile ==
    (/\ last.op \in {"get_data", "get_data_by_column"}
     /\ backend # "mongo"
     /\ last.pre.file # "ok") =>
        /\ last.err = "StorageException"
        /\ store = last.pre

\* a get was made against a collection that was never written
C14_Witness ==
    /\ last.op = "get_data"
    /\ backend = "local"
    /\ last.pre.file = "missing"
    /\ last.err = "StorageException"

\* a get was made against a file that holds no JSON text
C14_UndecodableWitness ==
    /\ last.op = "get_data"
    /\ backend = "local"
    /\ last.pre.file = "corrupt"
    /\ last.err = "StorageException"

-----------------------------------------------------------------------------
(* Concurrent mutations of a local collection (SpecRace)                   *)

BothDone == \A t \in Threads : threads[t].pc = "done"

\* no call began while the other was between its read and its dump
OneAfterTheOther == \A t \in Threads : threads[t].alone

\* C15: two insert_one_doc calls on the same local collection that run one
\* after the other keep both documents, after the documents the collection
\* held; calls that interleave can leave only one of the two (C15_LostInsert
\* is such an outcome).
C15_SequentialInsertsKeepBoth ==
    (BothDone /\ OneAfterTheOther) =>
        \E t \in Threads :
            store = Written(threads[t].initial \o <<threads[t].doc, threads[Other(t)].doc>>)

\* both calls have returned, they interleaved, and the collection holds the
\* document of one of them only
C15_LostInsert ==
    /\ BothDone
    /\ ~OneAfterTheOther
    /\ store.file = "ok"
    /\ \E t \in Threads :
          /\ Occurs(threads[t].doc, store.docs)
          /\ ~Occurs(threads[Other(t)].doc, store.docs)

\* two calls ran one after the other on a collection that held a document
C15_SequentialWitness ==
    /\ BothDone
    /\ OneAfterTheOther
    /\ Len(store.docs) = 3

-----------------------------------------------------------------------------
(* Concurrent dispatches (SpecDispatches)                                  *)

\* the positions of the routes that survive for the event of thread t and
\* the state and roles it resolved, in registration order
Surviving(t) ==
    {i \in 1..Len(threads[t].registered) :
        Survives(threads[t].registered[i], threads[t].message,
                 threads[t].state, threads[t].roles)}

\* C16: under every interleaving of two dispatches the route table stays as
\* it was, and the routes a dispatch finds, the callbacks it invokes and the
\* identity, payload, state and roles it passes them follow from its own
\* event and its own resolved state and roles.
C16_DispatchesDoNotInterfere ==
    \A t \in Threads :
        /\ command_routes = threads[t].registered
        /\ threads[t].searched =>
              /\ Range(threads[t].found) = Surviving(t)
              /\ \A j, k \in 1..Len(threads[t].found) :
                    j < k => threads[t].found[j] < threads[t].found[k]
              /\ Len(threads[t].calls) <= Len(threads[t].found)
              /\ \A j \in 1..Len(threads[t].calls) :
                    /\ threads[t].calls[j].route = threads[t].found[j]
                    /\ threads[t].calls[j].kwargs =
                          Kwargs(threads[t].user_id, threads[t].message,
                                 threads[t].roles, threads[t].state)

\* two dispatches for different users are both inside their loops, each has
\* invoked a callback, and the two resolved different states
C16_Witness ==
    /\ \A t \in Threads : threads[t].pc = "invoke" /\ threads[t].calls # <<>>
    /\ threads[1].state # threads[2].state
    /\ threads[1].user_id # threads[2].user_id

-----------------------------------------------------------------------------
(* Properties of RoleAuth (checked under SpecRoles)                        *)

\* the stored role list of a user: <<>> when the user has no record
RolesIn(st, user_id) ==
    IF \E j \in 1..Len(st.docs) : st.docs[j]["_id"] = user_id
    THEN (CHOOSE d \in Range(st.docs) : d["_id"] = user_id).Roles
    ELSE <<>>

HasRecord(st, user_id) == \E j \in 1..Len(st.docs) : st.docs[j]["_id"] = user_id

Holds(st, user_id, role) == HasRecord(st, user_id) /\ role \in Range(RolesIn(st, user_id))

\* the role and the password of the recorded call pass both checks
Authorised == served.role \in DOMAIN served.catalog /\ served.catalog[served.role] = served.password

\* C17: login_as with a role of the catalog and its password, for a user who
\* already holds that role, raises AlreadyLoggedError and leaves the stored role
\* lists as they were.
C17_LoginTwiceRefused ==
    (served.op = "login_as" /\ Authorised /\ Holds(served.pre, served.user_id, served.role))
        => /\ served.err = "AlreadyLoggedError"
           /\ served.post = served.pre

C17_Witness ==
    /\ served.op = "login_as" /\ Authorised
    /\ Holds(served.pre, served.user_id, served.role)
    /\ served.err = "AlreadyLoggedError"
    /\ Len(served.pre.docs) = 2

\* C18: login_as raises RoleError for a role that is not in the catalog and
\* PasswordError for a role of the catalog with another password, changing no
\* stored role list; for a role of the catalog with its password and a user
\* who has a record and does not hold the role, the role is appended to the
\* user's stored list, so that is_loggined_as answers True afterwards.
C18_LoginChecksThenAppends ==
    served.op = "login_as" =>
        /\ served.role \notin DOMAIN served.catalog
              => served.err = "RoleError" /\ served.post = served.pre
        /\ (served.role \in DOMAIN served.catalog
                /\ served.catalog[served.role] # served.password)
              => served.err = "PasswordError" /\ served.post = served.pre
        /\ (Authorised /\ HasRecord(served.pre, served.user_id)
                /\ ~Holds(served.pre, served.user_id, served.role))
              => /\ served.err = "none"
                 /\ RolesIn(served.post, served.user_id)
                        = Append(RolesIn(served.pre, served.user_id), served.role)
                 /\ RoleAuth_is_loggined_as(backend, served.post, served.role, served.user_id)
                        = Value("none", TRUE)

C18_Witness ==
    /\ served.op = "login_as" /\ Authorised
    /\ HasRecord(served.pre, served.user_id)
    /\ ~Holds(served.pre, served.user_id, served.role)
    /\ served.err = "none"
    /\ Holds(store, served.user_id, served.role)

C18_RoleErrorWitness ==
    served.op = "login_as" /\ served.role \notin DOMAIN served.catalog /\ served.err = "RoleError"

C18_PasswordErrorWitness ==
    served.op = "login_as" /\ served.err = "PasswordError"

\* every list of the collection but that of one user is as it was
OthersKept(pre, post, user_id) ==
    /\ Len(post.docs) = Len(pre.docs)
    /\ \A j \in 1..Len(pre.docs) :
          pre.docs[j]["_id"] # user_id => post.docs[j] = pre.docs[j]

\* s without the one occurrence of x it holds
Without(s, x) == SelectSeq(s, LAMBDA r : r # x)

\* C19 as stated: logout_as raises RoleError for a role that is not in the
\* catalog and AlreadyLoggedError whenever the user does not hold the role,
\* changing nothing; otherwise it removes the role from the stored list, so
\* that is_loggined_as answers False, and keeps the user's other roles.
C19_LogoutRefusesOrRemoves ==
    served.op = "logout_as" =>
        /\ served.role \notin DOMAIN served.catalog
              => served.err = "RoleError" /\ served.post = served.pre
        /\ (served.role \in DOMAIN served.catalog
                /\ ~Holds(served.pre, served.user_id, served.role))
              => served.err = "AlreadyLoggedError" /\ served.post = served.pre
        /\ (served.role \in DOMAIN served.catalog
                /\ Holds(served.pre, served.user_id, served.role))
              => /\ served.err = "none"
                 /\ RolesIn(served.post, served.user_id)
                        = Without(RolesIn(served.pre, served.user_id), served.role)
                 /\ OthersKept(served.pre, served.post, served.user_id)
                 /\ RoleAuth_is_loggined_as(backend, served.post, served.role, served.user_id)
                        = Value("none", FALSE)

\* C19 (as the code has it): AlreadyLoggedError is raised for a user who has a
\* record that does not hold the role; for a user without a record the role
\* lookup fails first (RoleError, or StorageException when the local file is
\* missing) and nothing is changed either.
C19_LogoutOfRecordedUser ==
    served.op = "logout_as" =>
        /\ served.role \notin DOMAIN served.catalog
              => served.err = "RoleError" /\ served.post = served.pre
        /\ (served.role \in DOMAIN served.catalog
                /\ HasRecord(served.pre, served.user_id)
                /\ ~Holds(served.pre, served.user_id, served.role))
              => served.err = "AlreadyLoggedError" /\ served.post = served.pre
        /\ (served.role \in DOMAIN served.catalog
                /\ ~HasRecord(served.pre, served.user_id))
              => /\ served.err = IF backend = "local" /\ served.pre.file # "ok"
                                  THEN "StorageException" ELSE "RoleError"
                 /\ served.post = served.pre
        /\ (served.role \in DOMAIN served.catalog
                /\ Holds(served.pre, served.user_id, served.role))
              => /\ served.err = "none"
                 /\ RolesIn(served.post, served.user_id)
                        = Without(RolesIn(served.pre, served.user_id), served.role)
                 /\ OthersKept(served.pre, served.post, served.user_id)
                 /\ RoleAuth_is_loggined_as(backend, served.post, served.role, served.user_id)
                        = Value("none", FALSE)

C19_Witness ==
    /\ served.op = "logout_as"
    /\ Holds(served.pre, served.user_id, served.role)
    /\ Len(RolesIn(served.pre, served.user_id)) = 2
    /\ served.err = "none"
    /\ Len(RolesIn(store, served.user_id)) = 1

C19_NoRecordWitness ==
    /\ served.op = "logout_as"
    /\ served.role \in DOMAIN served.catalog
    /\ served.pre.file = "ok"
    /\ ~HasRecord(served.pre, served.user_id)
    /\ served.err = "RoleError"

\* C20: remove_role raises RoleError for a role that is not in the catalog and
\* PasswordError for another password, leaving the catalog as it was; with the
\* role's password exactly that role leaves the catalog, and no stored role
\* list changes.
C20_RemoveRoleChangesCatalogOnly ==
    served.op = "remove_role" =>
        /\ served.post = served.pre
        /\ store = served.pre
        /\ served.role \notin DOMAIN served.catalog
              => served.err = "RoleError" /\ roles = served.catalog
        /\ (served.role \in DOMAIN served.catalog
                /\ served.catalog[served.role] # served.password)
              => served.err = "PasswordError" /\ roles = served.catalog
        /\ Authorised
              => /\ served.err = "none"
                 /\ DOMAIN roles = DOMAIN served.catalog \ {served.role}
                 /\ \A r \in DOMAIN roles : roles[r] = served.catalog[r]

C20_Witness ==
    /\ served.op = "remove_role" /\ Authorised
    /\ served.err = "none"
    /\ served.role \notin DOMAIN roles
    /\ \E user_id \in UserIds : Holds(store, user_id, served.role)

C20_PasswordErrorWitness ==
    served.op = "remove_role" /\ served.err = "PasswordError" /\ roles = served.catalog


\* the catalogs a and b differ at most in the password of one role
SameBut(a, b, role) ==
    /\ DOMAIN a = DOMAIN b
    /\ \A r \in DOMAIN a \ {role} : a[r] = b[r]

\* C21: add_role called again with the same role and password leaves the
\* catalog (the names and each role's password) as the first call left it;
\* called again with another password it replaces that role's password and
\* nothing else.
C21_AddRoleIdempotent ==
    [][(served.op = "add_role" /\ served'.op = "add_role" /\ served'.role = served.role)
          => /\ served'.password = served.password => roles' = roles
             /\ SameBut(roles', roles, served.role)
             /\ roles'[served.role] = served'.password]_vars

\* an add_role call for a role the catalog already had with that password
C21_Witness ==
    /\ served.op = "add_role"
    /\ served.role \in DOMAIN served.catalog
    /\ served.catalog[served.role] = served.password
    /\ roles = served.catalog

\* an add_role call that replaced the password of a role of the catalog
C21_OverwriteWitness ==
    /\ served.op = "add_role"
    /\ served.role \in DOMAIN served.catalog
    /\ served.catalog[served.role] # served.password
    /\ roles[served.role] = served.password


-----------------------------------------------------------------------------
(* Properties of roles and states across the components                    *)

\* C22: a role is given to a user, taken from a user or resolved for a user
\* only if the catalog has it at that moment: login_as and logout_as change a
\* stored list only for a role of the catalog, the baseline substituted for a
\* sender without a record holds roles of the catalog only, and so does the
\* record the bootstrap creates.
C22_RolesComeFromCatalog ==
    /\ (served.op \in {"login_as", "logout_as"} /\ served.post # served.pre)
          => served.role \in DOMAIN served.catalog
    /\ (Dispatched /\ NoRecord(served.pre, served.user_id))
          => Range(served.roles) \subseteq DOMAIN served.catalog
    /\ (Dispatched /\ NoRecord(served.pre, served.user_id)
            /\ HasRecord(served.post, served.user_id))
          => Range(RolesIn(served.post, served.user_id)) \subseteq DOMAIN served.catalog

\* the part of C22 that is about login_as and logout_as
C22_LoginLogoutWithinCatalog ==
    (served.op \in {"login_as", "logout_as"} /\ served.post # served.pre)
        => served.role \in DOMAIN served.catalog

\* the baseline was substituted while the catalog had no role "user"
C22_BaselineOutsideCatalog ==
    /\ Dispatched /\ NoRecord(served.pre, served.user_id)
    /\ served.roles = <<"user">>
    /\ "user" \notin DOMAIN served.catalog


NoDuplicates(s) == \A i, j \in 1..Len(s) : s[i] = s[j] => i = j

\* C23: after any sequence of login_as and logout_as calls (and changes of the
\* catalog) on records that started with duplicate-free role lists, no stored
\* role list holds the same role twice.
C23_RoleListsAreSets ==
    \A j \in 1..Len(store.docs) :
        "Roles" \in DOMAIN store.docs[j] => NoDuplicates(store.docs[j].Roles)

\* a user has logged in to a role, logged out of it and logged in again
C23_Witness ==
    /\ served.op = "login_as" /\ served.err = "none"
    /\ RolesIn(store, served.user_id) = <<"user", "moderator", "admin">>


\* C24: get_state raises StateError, and no other error, whenever the user
\* has no record; get_state_params raises StateError when the params mode is
\* off, whatever the storage holds, and when the user has no record.
C24_MissingUserIsStateError ==
    /\ (served.op = "get_state" /\ NoRecord(served.pre, served.user_id))
          => served.err = "StateError"
    /\ (served.op = "get_state_params" /\ ~config.with_params)
          => served.err = "StateError"
    /\ (served.op = "get_state_params" /\ NoRecord(served.pre, served.user_id))
          => served.err = "StateError"

\* the same statement where the users collection can be read
C24_StateErrorWhenReadable ==
    Readable(backend, served.pre) => C24_MissingUserIsStateError

\* the part about the params mode being off
C24_ParamsModeOff ==
    (served.op = "get_state_params" /\ ~config.with_params) => served.err = "StateError"

\* get_state for a user without a record ended in another error
C24_OtherErrorReached ==
    /\ served.op = "get_state" /\ NoRecord(served.pre, served.user_id)
    /\ served.err = "StorageException"


\* the stored state name of a user who has a record
StateIn(st, user_id) == (CHOOSE d \in Range(st.docs) : d["_id"] = user_id).State

\* C25: for a user with a record, is_free returns True exactly when the
\* user's state is the configured free-state name and False otherwise, with
\* the params mode on and with it off.
C25_IsFreeComparesState ==
    (served.op = "is_free" /\ HasRecord(served.pre, served.user_id)) =>
        /\ served.err = "none"
        /\ served.answer = (StateIn(served.pre, served.user_id) = config.free_status)

\* the same statement with the params mode off
C25_IsFreeWithoutParams ==
    ~config.with_params => C25_IsFreeComparesState

\* is_free raised for a user with a record, in the params mode
C25_RaisedWithParams ==
    /\ served.op = "is_free" /\ HasRecord(served.pre, served.user_id)
    /\ config.with_params
    /\ served.err = "TypeError"


\* the state name and the role list of a user can be looked up without error
Resolvable(b, st, user_id) ==
    /\ StateManager_get_state(b, st, user_id).err = "none"
    /\ RoleAuth_get_user_roles(b, st, user_id).err = "none"

\* C26: after any sequence of user_initialize, user_update, set_state,
\* set_free, login_as and logout_as calls, every user id that has a record in
\* the users collection has a state name and a role list that get_state and
\* get_user_roles return without error.
C26_EveryRecordHasStateAndRoles ==
    \A user_id \in UserIds :
        HasRecord(store, user_id) => Resolvable(backend, store, user_id)

\* the same statement for the local backend
C26_LocalRecordsHaveStateAndRoles ==
    backend = "local" => C26_EveryRecordHasStateAndRoles

\* a record that a write for an unknown user has created, without a role list
C26_RecordWithoutRoles ==
    /\ served.op \in {"set_state", "set_free", "user_update"}
    /\ NoRecord(served.pre, served.user_id)
    /\ HasRecord(store, served.user_id)
    /\ ~Resolvable(backend, store, served.user_id)


\* the document TelegramBot.__init_user asks user_initialize to store
Seeded(user_id) ==
    Merge([Roles |-> <<"user">>, State |-> "free", State_Params |-> <<>>], [_id |-> user_id])

\* C27: user_initialize for a user who has a record changes nothing in the
\* users collection; for a user without a record it appends exactly one
\* document, holding the id and the caller's fields.
C27_InitializeOnce ==
    served.op = "user_initialize" =>
        /\ HasRecord(served.pre, served.user_id) => served.post = served.pre
        /\ NoRecord(served.pre, served.user_id)
              => served.post.docs = Append(served.pre.docs, Seeded(served.user_id))

\* the same statement where the users collection can be read
C27_InitializeOnceWhenReadable ==
    Readable(backend, served.pre) => C27_InitializeOnce

\* user_initialize failed for a user without a record and stored nothing
C27_NothingStored ==
    /\ served.op = "user_initialize"
    /\ NoRecord(served.pre, served.user_id)
    /\ served.err = "StorageException"
    /\ NoRecord(store, served.user_id)


\* C28: only user_initialize creates records: set_state, set_free,
\* user_update, login_as and logout_as for a user id without a record add no
\* document for that id to the users collection, on either backend.
C28_OnlyInitializeCreates ==
    (/\ served.op \in {"set_state", "set_free", "user_update", "login_as", "logout_as"}
     /\ NoRecord(served.pre, served.user_id))
        => NoRecord(served.post, served.user_id)

\* the same statement for the local backend
C28_LocalOnlyInitializeCreates ==
    backend = "local" => C28_OnlyInitializeCreates

\* the part about login_as and logout_as, on both backends
C28_LoginLogoutCreateNothing ==
    (served.op \in {"login_as", "logout_as"} /\ NoRecord(served.pre, served.user_id))
        => served.post = served.pre

\* set_state has created the record of a user who had none
C28_CreatedBySetState ==
    /\ served.op = "set_state"
    /\ NoRecord(served.pre, served.user_id)
    /\ HasRecord(store, served.user_id)


\* C29: when a dispatch substitutes the baseline for a sender without a
\* record, the substituted state is the free-state name the StateManager was
\* built with.
C29_BaselineIsConfiguredFreeState ==
    (Dispatched /\ NoRecord(served.pre, served.user_id) /\ Readable(backend, served.pre))
        => served.state = config.free_status

\* the same statement for a StateManager built with the default name
C29_BaselineIsDefaultFreeState ==
    config.free_status = "free" => C29_BaselineIsConfiguredFreeState

\* the baseline was substituted with another name than the configured one
C29_BaselineDiffers ==
    /\ Dispatched /\ NoRecord(served.pre, served.user_id) /\ Readable(backend, served.pre)
    /\ config.free_status = "idle"
    /\ served.state = "free"


-----------------------------------------------------------------------------
(* Properties of command parsing (checked under SpecTokens)                *)

\* the text up to the first whitespace, without one leading "/"
TokenOf(text) ==
    IF UpToWhitespace(text) # <<>> /\ Head(UpToWhitespace(text)) = "/"
    THEN Tail(UpToWhitespace(text))
    ELSE UpToWhitespace(text)

\* C30: the token compared with the registered commands is the text up to the
\* first whitespace with exactly one leading "/" removed and nothing else
\* stripped: the routes found for a message are the registered routes whose
\* command equals that token and that are open to the sender.
C30_TokenIsTextWithoutOneSlash ==
    (Dispatched /\ served.failed \notin {"parse", "resolve"}) =>
        \A i \in 1..Len(served.routes) :
            (i \in Range(served.found))
                <=> /\ served.routes[i].command = TokenOf(served.text)
                    /\ Route_is_accessible_with(served.routes[i], served.state, served.roles)

\* the same statement for messages with one slash, in front
C30_OneLeadingSlash ==
    (Dispatched /\ Strip(UpToWhitespace(served.text), {"/"}) = TokenOf(served.text))
        => C30_TokenIsTextWithoutOneSlash

\* "/help/" has been dispatched to a route registered for "help"
C30_TrailingSlashMatched ==
    /\ Dispatched
    /\ served.text = <<"/">> \o help \o <<"/">>
    /\ served.found # <<>>
    /\ served.routes[served.found[1]].command = help


-----------------------------------------------------------------------------
(* Properties of message and document routes                               *)

\* C31: a message route is triggered only when its pattern matches the whole
\* message text: every callback invoked for a message belongs to a route one
\* of whose alternatives is the text itself, so "hi|hello" is never invoked
\* for "hi there".
C31_MessageRoutesFullMatch ==
    served.op = "serve_message_route" =>
        \A k \in 1..Len(served.calls) :
            \E i \in 1..Len(served.routes[served.calls[k]].message) :
                served.routes[served.calls[k]].message[i] = served.text

\* "hi there" was dispatched with a route for "hi|hello" registered, and only
\* the route for "hi there" was invoked
C31_Witness ==
    /\ served.op = "serve_message_route"
    /\ served.text = hi_there
    /\ Len(served.routes) = 2
    /\ served.routes[1].message = <<hi, hello>>
    /\ served.routes[2].message = <<hi_there>>
    /\ served.calls = <<2>>


\* the trigger predicate of a document route
Triggers(route, document) ==
    /\ route.file_names = <<>> \/ document.file_name \in Range(route.file_names)
    /\ route.mime_types = <<>> \/ document.mime_type \in Range(route.mime_types)

\* C32: a document route is triggered by a document exactly when its
\* file-name allow-list is empty or holds the document's file name and its
\* mime-type allow-list is empty or holds the document's mime type; for a
\* document event the callbacks invoked are those of the triggered routes
\* that are open to the sender's state and roles.
C32_DocumentRoutesFollowAllowLists ==
    /\ served.op = "find_document_routes" =>
          \A i \in 1..Len(served.routes) :
              i \in Range(served.found)
                  <=> /\ Triggers(served.routes[i], served.document)
                      /\ Admits(served.routes[i].states, served.routes[i].roles,
                                served.state, served.roles)
    /\ served.op = "serve_document_route" =>
          \A i \in 1..Len(served.routes) :
              i \in Range(served.calls)
                  <=> /\ Triggers(served.routes[i], served.document)
                      /\ Admits(served.routes[i].states, served.routes[i].roles,
                                Router_resolve(backend, served.pre, served.user_id).state,
                                Router_resolve(backend, served.pre, served.user_id).roles)

\* the part of C32 that is about the search among the registered routes
C32_SearchFollowsAllowLists ==
    served.op = "find_document_routes" => C32_DocumentRoutesFollowAllowLists

\* a document was sent that a registered route accepts from anyone, and no
\* callback was invoked
C32_NothingInvoked ==
    /\ served.op = "serve_document_route"
    /\ Len(served.routes) > 0
    /\ Triggers(served.routes[1], served.document)
    /\ served.routes[1].states = <<>> /\ served.routes[1].roles = <<>>
    /\ served.calls = <<>>
    /\ served.err = "AttributeError"


-----------------------------------------------------------------------------
(* Properties of construction (checked under SpecConstruction)             *)

Constructed == served.op \in {"TelegramBot", "TelegramUtilsService"}

FolderGiven == "storage_folder" \in served.kwargs

ConnectionGiven == ConnectionKeys \subseteq served.kwargs

\* C33: construction selects the local backend when only a storage folder is
\* given and the remote backend when only the full set of connection
\* parameters is given; when neither or both are given it raises
\* InitException and no storage is built.
C33_BackendSelectionIsExclusive ==
    Constructed =>
        /\ (FolderGiven /\ ~ConnectionGiven) => (served.err = "none" /\ backend = "local")
        /\ (ConnectionGiven /\ ~FolderGiven) => (served.err = "none" /\ backend = "mongo")
        /\ (FolderGiven <=> ConnectionGiven)
              => (served.err = "InitException" /\ backend = "none")

\* the same statement for arguments that do not name both backends
C33_SelectionWhenNotBoth ==
    (Constructed /\ ~(FolderGiven /\ ConnectionGiven)) => C33_BackendSelectionIsExclusive

\* both backends were named and the remote one was built
C33_BothGivenBuildsRemote ==
    /\ Constructed /\ FolderGiven /\ ConnectionGiven
    /\ served.err = "none" /\ backend = "mongo"


-----------------------------------------------------------------------------
(* Properties of one dispatch while its callbacks write (SpecDispatches)   *)

\* the routes a dispatch has invoked so far, in the order of the calls
RoutesInvoked(t) == [k \in 1..Len(threads[t].calls) |-> threads[t].calls[k].route]

\* C34: within one dispatch the state and the roles are resolved once, before
\* the routes are searched: whatever its callbacks write to the sender's
\* state or roles, the routes invoked and still to invoke are the routes
\* found at the start, in their order, and every callback receives the state
\* and roles resolved at the start.
C34_ResolvedOncePerDispatch ==
    \A t \in Threads :
        threads[t].searched =>
            /\ RoutesInvoked(t) \o threads[t].rest = threads[t].found
            /\ \A k \in 1..Len(threads[t].calls) :
                  /\ threads[t].calls[k].kwargs.state = threads[t].state
                  /\ threads[t].calls[k].kwargs.roles = threads[t].roles

\* a first callback has changed the sender's stored state, and the route
\* found for the old state was invoked after it, with the old state
C34_Witness ==
    \E t \in Threads :
        /\ Len(threads[t].calls) = 2
        /\ command_routes[threads[t].calls[1].route].callback = "ask_password"
        /\ command_routes[threads[t].calls[2].route].states = <<"free">>
        /\ threads[t].calls[2].kwargs.state = "free"
        /\ StateManager_get_state(backend, store, threads[t].user_id)
               = Value("none", "awaiting_password")

\* the same for the roles: the sender became an admin in the first callback
\* and the route for admins was not invoked
C34_RolesWitness ==
    \E t \in Threads :
        /\ threads[t].pc = "done"
        /\ Len(threads[t].calls) = 2
        /\ command_routes[threads[t].calls[1].route].callback = "login_as_admin"
        /\ threads[t].calls[2].kwargs.roles = <<"user">>
        /\ RoleAuth_get_user_roles(backend, store, threads[t].user_id).value = <<"user", "admin">>


-----------------------------------------------------------------------------
(* Properties of set_state followed by get_state (SpecStates)              *)

\* C35: whenever set_state(user_id, name) returns without an error, a
\* get_state(user_id) that follows it returns name; so a set_state for a user
\* id that has no record either raises StateError or makes the state
\* readable, on either backend.
C35_SetStateThenGetState ==
    (served.op = "set_state" /\ served.err = "none")
        => StateManager_get_state(backend, store, served.user_id)
              = Value("none", served.value)

\* the same statement for the users who had a record before the call
C35_SetStateOfRecordedUser ==
    (served.op = "set_state" /\ served.err = "none"
         /\ HasRecord(served.pre, served.user_id))
        => StateManager_get_state(backend, store, served.user_id)
              = Value("none", served.value)

\* set_state returned for a user without a record on the local backend,
\* nothing was written and get_state raises StateError
C35_SilentNoOp ==
    /\ served.op = "set_state" /\ served.err = "none"
    /\ backend = "local"
    /\ NoRecord(served.pre, served.user_id)
    /\ store = served.pre
    /\ StateManager_get_state(backend, store, served.user_id).err = "StateError"

\* on the remote backend the same call created the record
C35_UpsertedOnRemote ==
    /\ served.op = "set_state" /\ served.err = "none"
    /\ backend = "mongo"
    /\ NoRecord(served.pre, served.user_id)
    /\ StateManager_get_state(backend, store, served.user_id) = Value("none", served.value)


-----------------------------------------------------------------------------
(* SpecLogins: two threads call RoleAuth.login_as for the same user and    *)
(* two different roles. A call reads the user's roles from the storage and *)
(* later writes the list it has built; the other call can run in between.  *)

LoginCatalog == [user |-> "", admin |-> "secret", moderator |-> ""]

LoginRoles == {"admin", "moderator"}

InitLogins ==
    /\ backend \in {"local", "mongo"}
    /\ config = BotConfig
    /\ message_routes = <<>>
    /\ document_routes = <<>>
    /\ store \in UsersContents
    /\ last = NoCall
    /\ roles = LoginCatalog
    /\ command_routes = <<>>
    /\ served = NotServed
    /\ probe = NoProbe
    /\ twin = NoTwin
    /\ \E user_id \in UserIds :
       \E role \in {p \in LoginRoles \X LoginRoles : p[1] # p[2]} :
       \E password \in {"", "secret"} \X {"", "secret"} :
          threads = [t \in Threads |->
                        [pc |-> "called", role |-> role[t], user_id |-> user_id,
                         password |-> password[t],
                         user_roles |-> Value("none", <<>>), err |-> "none"]]

\* self.__role_check(role); self.__password_check(role, password);
\* user_roles = self.get_user_roles(user_id)
login_as_get_user_roles(t) ==
    /\ threads[t].pc = "called"
    /\ threads' = [threads EXCEPT ![t] =
          IF threads[t].role \notin DOMAIN roles
          THEN [@ EXCEPT !.pc = "raised", !.err = "RoleError"]
          ELSE IF roles[threads[t].role] # threads[t].password
               THEN [@ EXCEPT !.pc = "raised", !.err = "PasswordError"]
               ELSE [@ EXCEPT !.pc = "read",
                              !.user_roles = RoleAuth_get_user_roles(backend, store,
                                                                     threads[t].user_id)]]
    /\ UNCHANGED <<backend, config, message_routes, document_routes, store, last, roles, command_routes, served, probe, twin>>

\* if role not in user_roles: user_roles.append(role); update_one_doc(...)
\* else: raise AlreadyLoggedError, with the list read in the step before
login_as_update(t) ==
    /\ threads[t].pc = "read"
    /\ store' = RoleAuth_grant(backend, store, threads[t].role, threads[t].user_id,
                               threads[t].user_roles).store
    /\ threads' = [threads EXCEPT
          ![t].err = RoleAuth_grant(backend, store, threads[t].role, threads[t].user_id,
                                    threads[t].user_roles).err,
          ![t].pc = IF RoleAuth_grant(backend, store, threads[t].role, threads[t].user_id,
                                      threads[t].user_roles).err = "none"
                    THEN "returned" ELSE "raised"]
    /\ UNCHANGED <<backend, config, message_routes, document_routes, last, roles, command_routes, served, probe, twin>>

NextLogins ==
    \E t \in Threads :
        \/ login_as_get_user_roles(t)
        \/ login_as_update(t)

SpecLogins == InitLogins /\ [][NextLogins]_vars

-----------------------------------------------------------------------------
(* Properties of concurrent logins (SpecLogins)                            *)

\* C36: when two login_as calls for two different roles of the same user run
\* concurrently and both return without an error, the stored role list of
\* the user holds both roles afterwards, under every interleaving and on
\* either backend.
C36_NoGrantedRoleLost ==
    (\A t \in Threads : threads[t].pc = "returned")
        => \A t \in Threads :
              /\ HasRecord(store, threads[t].user_id)
              /\ threads[t].role \in Range(RolesIn(store, threads[t].user_id))

\* the same statement for two calls of which one returned before the other
\* read the roles
C36_NoRoleLostInSequence ==
    ((\A t \in Threads : threads[t].pc = "returned")
       /\ \E t \in Threads :
             threads[t].role \in Range(threads[Other(t)].user_roles.value))
        => \A t \in Threads :
              /\ HasRecord(store, threads[t].user_id)
              /\ threads[t].role \in Range(RolesIn(store, threads[t].user_id))

\* both calls returned and the stored list has one of the two roles only
C36_RoleLost ==
    /\ \A t \in Threads : threads[t].pc = "returned"
    /\ HasRecord(store, threads[1].user_id)
    /\ \E t \in Threads :
          /\ threads[t].role \notin Range(RolesIn(store, threads[t].user_id))
          /\ threads[Other(t)].role \in Range(RolesIn(store, threads[t].user_id))


\* the same loss on the remote backend, where each write is one update_one
C36_RoleLostOnRemote == backend = "mongo" /\ C36_RoleLost


-----------------------------------------------------------------------------
(* SpecInitializers: two dispatches call UserMetaStorage.user_initialize   *)
(* at the same time. A call asks the storage whether the user exists and   *)
(* inserts afterwards; the other call can run in between.                  *)

InitDict == [Roles |-> <<"user">>, State |-> "free", State_Params |-> <<>>]

InitInitializers ==
    /\ backend \in {"local", "mongo"}
    /\ config = BotConfig
    /\ message_routes = <<>>
    /\ document_routes = <<>>
    /\ store \in UsersContents \cup {NoCollection}
    /\ last = NoCall
    /\ roles = Catalog
    /\ command_routes = <<>>
    /\ served = NotServed
    /\ probe = NoProbe
    /\ twin = NoTwin
    /\ \E user_id \in UserIds \X UserIds :
          threads = [t \in Threads |->
                        [pc |-> "called", user_id |-> user_id[t],
                         exists |-> Value("none", FALSE), err |-> "none"]]

\* self.user_exists(user_id)
user_initialize_user_exists(t) ==
    /\ threads[t].pc = "called"
    /\ threads' = [threads EXCEPT
          ![t].pc = "checked",
          ![t].exists = UserMetaStorage_user_exists(backend, store, threads[t].user_id)]
    /\ UNCHANGED <<backend, config, message_routes, document_routes, store, last, roles, command_routes, served, probe, twin>>

\* if not <the answer>: init_dict[id_column] = user_id; insert_one_doc(...)
user_initialize_insert(t) ==
    /\ threads[t].pc = "checked"
    /\ store' = UserMetaStorage_insert_if_new(backend, store, threads[t].user_id,
                                              InitDict, threads[t].exists).store
    /\ threads' = [threads EXCEPT
          ![t].err = UserMetaStorage_insert_if_new(backend, store, threads[t].user_id,
                                                   InitDict, threads[t].exists).err,
          ![t].pc = IF UserMetaStorage_insert_if_new(backend, store, threads[t].user_id,
                                                     InitDict, threads[t].exists).err = "none"
                    THEN "returned" ELSE "raised"]
    /\ UNCHANGED <<backend, config, message_routes, document_routes, last, roles, command_routes, served, probe, twin>>

NextInitializers ==
    \E t \in Threads :
        \/ user_initialize_user_exists(t)
        \/ user_initialize_insert(t)

SpecInitializers == InitInitializers /\ [][NextInitializers]_vars

-----------------------------------------------------------------------------
(* Properties of concurrent initializations (SpecInitializers)             *)

\* the number of documents of a collection that carry the id
RecordsOf(st, user_id) ==
    Cardinality({i \in 1..Len(st.docs) : HoldsId(st.docs[i], "_id", user_id)})

\* C37: after any interleaving of concurrent dispatches that call
\* user_initialize for the same user id, the users collection holds at most
\* one document with that id.
C37_OneRecordPerUser ==
    \A user_id \in UserIds : RecordsOf(store, user_id) <= 1

\* the same statement on the remote backend, where _id is unique
C37_OneRecordPerUserOnRemote ==
    backend = "mongo" => C37_OneRecordPerUser

\* both calls for the same user found no record, and both inserted one
C37_TwoRecords ==
    /\ backend = "local"
    /\ threads[1].user_id = threads[2].user_id
    /\ \A t \in Threads : threads[t].pc = "returned" /\ ~threads[t].exists.value
    /\ RecordsOf(store, threads[1].user_id) = 2

\* on the remote backend the second insert was refused
C37_SecondInsertRefused ==
    /\ backend = "mongo"
    /\ threads[1].user_id = threads[2].user_id
    /\ \E t \in Threads : threads[t].pc = "raised" /\ threads[Other(t)].pc = "returned"
    /\ RecordsOf(store, threads[1].user_id) = 1


-----------------------------------------------------------------------------
(* Properties of the local inserts on a file that cannot be read           *)
(* (SpecStorage)                                                           *)

\* C38: insert_one_doc on the local backend never discards stored documents:
\* a readable collection gets the document appended, a collection whose file
\* exists but cannot be decoded makes the insert fail with StorageException
\* and stays as it was, and only a collection that does not exist yet is
\* created holding just the inserted document.
C38_InsertNeverDiscards ==
    (backend = "local" /\ last.op = "insert_one_doc") =>
        /\ last.pre.file = "ok" =>
              last.err = "none" /\ store = Written(Append(last.pre.docs, last.doc))
        /\ last.pre.file = "corrupt" =>
              last.err = "StorageException" /\ store = last.pre
        /\ last.pre.file = "missing" =>
              last.err = "none" /\ store = Written(<<last.doc>>)

\* the parts about the readable and the missing collection
C38_InsertAppendsOrCreates ==
    (backend = "local" /\ last.op = "insert_one_doc" /\ last.pre.file # "corrupt") =>
        C38_InsertNeverDiscards

\* an insert returned on a file that could not be decoded, and the file now
\* holds the inserted document alone
C38_UndecodableFileReplaced ==
    /\ backend = "local" /\ last.op = "insert_one_doc"
    /\ last.pre.file = "corrupt"
    /\ last.err = "none"
    /\ store = Written(<<last.doc>>)


-----------------------------------------------------------------------------
(* BotLogger. A log is {'time': <milliseconds>, 'event': <text>}. A number *)
(* is written [int |-> n] and the operator document {'$lte': n} is written *)
(* [lte |-> n], so that the two compare as an int and a dict do in Python: *)
(* they are never equal.                                                   *)

MaxTime == 3

Number(n) == [int |-> n]

Lte(n) == [lte |-> n]

levels == [DEBUG |-> 1, INFO |-> 2, WARNING |-> 3, ERROR |-> 4, CRITICAL |-> 5]

LoggerConfig == [current_level |-> "INFO", short_params |-> TRUE]

\* the filter language of delete_many: a value that is an operator document
\* is a condition on the stored value, any other value must be equal to it
Mongo_satisfies(doc, x) ==
    \A key \in DOMAIN doc :
        /\ key \in DOMAIN x
        /\ IF DOMAIN doc[key] = {"lte"}
           THEN DOMAIN x[key] = {"int"} /\ x[key].int <= doc[key].lte
           ELSE x[key] = doc[key]

\* collection.delete_many(doc), with doc a filter that may hold operators
MongoDBStorage_delete_many(st, doc) ==
    Outcome("none", [st EXCEPT !.docs = SelectSeq(st.docs, LAMBDA x : ~Mongo_satisfies(doc, x))],
            <<>>)

\* self.__storage.remove_many_docs_by_dict(self.__collection, doc)
BotLogger_remove_many(b, st, doc) ==
    IF b = "mongo"
    THEN MongoDBStorage_delete_many(st, doc)
    ELSE LocalJSONStorage_remove_many_docs_by_dict(st, doc)

\* __write_log(level, event) without params: nothing is sent below the
\* current level
BotLogger_write_log(b, st, cfg, level, event, now) ==
    IF levels[cfg.current_level] > levels[level]
    THEN Outcome("none", st, <<>>)
    ELSE Storage_insert_one_doc(b, st, [time |-> Number(now), event |-> event])

\* __log_cleaning() when the removal has returned
BotLogger_log_cleaning(b, cfg, removed, later) ==
    IF removed.err # "none"
    THEN removed
    ELSE BotLogger_write_log(b, removed.store, cfg, "INFO", "Old logs cleaned", later)

\* max_time = int(time.time() * 1000) - min_age; remove_many_docs_by_dict(
\* collection, {'time': {'$lte': max_time}}); __log_cleaning()
BotLogger_clean_old(b, st, cfg, now, later, min_age) ==
    BotLogger_log_cleaning(b, cfg,
        BotLogger_remove_many(b, st, [time |-> Lte(now - min_age)]), later)

-----------------------------------------------------------------------------
(* SpecLogs: a logger on either backend writes logs as the clock advances, *)
(* changes its level and cleans old logs.                                  *)

Clock == 0..MaxTime

LogLevels == {"DEBUG", "INFO", "CRITICAL"}

\* the clock has not gone back since the newest stored log was written
NotBefore(st, now) == \A i \in 1..Len(st.docs) : st.docs[i].time.int <= now

InitLogs ==
    /\ backend \in {"local", "mongo"}
    /\ config = LoggerConfig
    /\ message_routes = <<>>
    /\ document_routes = <<>>
    /\ store = NoCollection
    /\ last = NoCall
    /\ roles = NoRoles
    /\ command_routes = <<>>
    /\ served = NotServed
    /\ probe = NoProbe
    /\ twin = NoTwin
    /\ threads = NoThreads

log_start ==
    \E now \in Clock :
        /\ NotBefore(store, now)
        /\ Len(store.docs) < MaxDocs
        /\ served' = Patched(Called("log_start", 0,
                         BotLogger_write_log(backend, store, config, "INFO", "Bot started", now)),
                     [now |-> now, later |-> now, min_age |-> 0, removed |-> store])
        /\ store' = served'.post
        /\ UNCHANGED <<backend, config, message_routes, document_routes, last, roles, command_routes, probe, twin, threads>>

log_error ==
    \E now \in Clock :
        /\ NotBefore(store, now)
        /\ Len(store.docs) < MaxDocs
        /\ served' = Patched(Called("log_error", 0,
                         BotLogger_write_log(backend, store, config, "ERROR", "Failed", now)),
                     [now |-> now, later |-> now, min_age |-> 0, removed |-> store])
        /\ store' = served'.post
        /\ UNCHANGED <<backend, config, message_routes, document_routes, last, roles, command_routes, probe, twin, threads>>

\* if level in self.levels: ... else: raise WrongLogLevelError(level)
set_level ==
    \E level \in LogLevels \cup {"TRACE"} :
        /\ config' = IF level \in DOMAIN levels
                     THEN [config EXCEPT !.current_level = level]
                     ELSE config
        /\ UNCHANGED <<backend, message_routes, document_routes, store, last, roles, command_routes, served, probe, twin, threads>>

clean_old ==
    \E now \in Clock, later \in Clock, min_age \in Clock :
        /\ NotBefore(store, now)
        /\ now <= later
        /\ Len(store.docs) <= MaxDocs
        /\ served' = Patched(Called("clean_old", 0,
                         BotLogger_clean_old(backend, store, config, now, later, min_age)),
                     [now |-> now, later |-> later, min_age |-> min_age,
                      removed |-> BotLogger_remove_many(backend, store,
                                      [time |-> Lte(now - min_age)]).store])
        /\ store' = served'.post
        /\ UNCHANGED <<backend, config, message_routes, document_routes, last, roles, command_routes, probe, twin, threads>>

NextLogs ==
    \/ log_start
    \/ log_error
    \/ set_level
    \/ clean_old

SpecLogs == InitLogs /\ [][NextLogs]_vars

-----------------------------------------------------------------------------
(* Properties of the cleaning of old logs (SpecLogs)                       *)

\* served.removed is the collection as the removal of clean_old left it,
\* before the log of the cleaning was written to it

\* the logs of a collection whose time is at most max_time
OldLogs(st, max_time) == {i \in 1..Len(st.docs) : st.docs[i].time.int <= max_time}

\* C39: clean_old(min_age) deletes from the log collection every log whose
\* time is at most now - min_age and keeps every newer log, on whichever
\* backend the logger was constructed with.
C39_CleanOldDeletesOldLogs ==
    served.op = "clean_old" =>
        \A i \in 1..Len(served.pre.docs) :
            IF i \in OldLogs(served.pre, served.now - served.min_age)
            THEN ~Occurs(served.pre.docs[i], served.removed.docs)
            ELSE Occurs(served.pre.docs[i], store.docs)

\* the same statement on the remote backend
C39_CleanOldOnRemote ==
    backend = "mongo" => C39_CleanOldDeletesOldLogs

\* no newer log is deleted, on either backend
C39_NewerLogsKept ==
    served.op = "clean_old" =>
        \A i \in 1..Len(served.pre.docs) :
            i \notin OldLogs(served.pre, served.now - served.min_age)
                => Occurs(served.pre.docs[i], store.docs)

\* clean_old returned on the local backend and a log older than min_age is
\* still stored
C39_OldLogKept ==
    /\ served.op = "clean_old" /\ served.err = "none"
    /\ backend = "local"
    /\ \E i \in OldLogs(served.pre, served.now - served.min_age) :
          /\ Occurs(served.pre.docs[i], served.removed.docs)
          /\ Occurs(served.pre.docs[i], store.docs)

\* on the remote backend an old log was deleted and a newer one kept
C39_CleanedOnRemote ==
    /\ served.op = "clean_old" /\ served.err = "none"
    /\ backend = "mongo"
    /\ OldLogs(served.pre, served.now - served.min_age) # {}
    /\ OldLogs(served.pre, served.now - served.min_age) # 1..Len(served.pre.docs)
    /\ Len(store.docs) = Len(served.pre.docs) - Cardinality(OldLogs(served.pre, served.now - served.min_age)) + 1

====
